---- MODULE Spec2Model ----
(***************************************************************************)
(* A state-machine model of spotify-dl: the Spotify API gate and its       *)
(* paginated listings (lib/api.js), the YouTube downloader with its        *)
(* SponsorBlock filter (lib/downloader.js), the id cache (lib/cache.js)    *)
(* and the runner that drives lists of items through them                  *)
(* (util/runner.js).                                                       *)
(***************************************************************************)
EXTENDS Integers, Sequences, FiniteSets, TLC

(***************************************************************************)
(* Bounds of the model.                                                    *)
(***************************************************************************)
\* Largest total a listing's provider reports.
MaxTotal == 5
\* The clock stops at this instant.
MaxClock == 5
\* A listing is cut off after this many page responses (a provider that
\* never delivers its total would keep the loop going for ever).
MaxPages == 4
\* Longest list of links downloader is called with.
MaxLinks == 3
\* Inputs on the command line of a run.
MaxInputs == 2

\* Constants.AUTH.REFRESH_ACCESS_TOKEN_SECONDS, Constants.AUTH.TIMEOUT_RETRY
\* and Constants.MAX_LIMIT_DEFAULT are set in util/constants.js; the model
\* measures time in units of one retry interval and uses a small page size.
REFRESH_ACCESS_TOKEN_SECONDS == 2
TIMEOUT_RETRY == 1
MAX_LIMIT_DEFAULT == 2

\* callSpotifyApi: const maxRetries = 5
maxRetries == 5

\* JavaScript's undefined for nextTokenRefreshTime: no instant of the clock.
Unset == 0 - 1
None == "none"

Min(a, b) == IF a < b THEN a ELSE b

VARIABLES
  \* ---- lib/api.js: module state and the gate's environment
  clock,                 \* new Date()
  nextTokenRefreshTime,  \* let nextTokenRefreshTime (Unset: undefined)
  accessToken,           \* spotifyApi's access token: None or the grant that set it
  refreshTokenStored,    \* spotifyApi.getRefreshToken(): None or "rt"
  cli,                   \* cliInputs(): inputs (their types), username,
                         \* password, login
  \* ---- callSpotifyApi: one call in progress
  gpc,                   \* "idle", "verify", "call", "wait", "returned", "thrown"
  tries,
  lastError,
  gateResult,            \* the value returned or the error thrown
  invocations,           \* times apiCall was invoked in this call
  waits,                 \* the inter-attempt timeouts of this call, in seconds
  errs,                  \* the errors apiCall raised in this call, in order
  credLog,               \* credential strategies run in this call, in order
  credFails,             \* credential steps that failed in this call
  \* ---- a paginated listing (extractPlaylist and its siblings)
  lpc,                   \* "off", "fetch", "awaiting", "done", "failed", "cut"
  total,                 \* the provider's catalogue is 1..total
  pageCap,               \* the provider returns at most this many items a page
  offset,
  tracks,                \* items accumulated
  fetched,               \* offsets of the pages received, in order
  gateCalls,             \* callSpotifyApi calls the listing has made
  \* ---- lib/downloader.js: one call of downloader(youtubeLinks, output)
  dpc,                   \* "off", "enter", "loop", "download", "returned", "thrown"
  youtubeLinks,          \* the candidates: the shape of each link
  attemptCount,
  downloadSuccess,
  complexFilter,         \* the keep-segments of the filter graph, NoFilter for null
  sbAnswer,              \* what SponsorBlock answered for the current link
  outputFile,            \* the file at the output path
  plans,                 \* links sponsorComplexFilter was called for, in order
  attempts,              \* transcodes run: the link and how each ended
  dResult,               \* the boolean returned, or the error thrown
  \* ---- util/runner.js: cliInputs() and one call of run()
  inputs,                \* the inputs of the command line, in order
  downloadLyrics,
  downloadReport,
  cacheFileIsRelative,   \* getCacheFile: cacheFile.startsWith('.')
  rpc,                   \* where run() stands, and how main() left the process
  inputIdx,
  listIdx,
  itemIdx,
  inputState,            \* per input: "pending", "lists", "done" or how it failed
  flags,                 \* per item: cached, failed, lyrics
  ops,                   \* per item: the steps run for it
  ytLinks,
  listResults,
  report,                \* what generateReport logged
  \* ---- the file system
  dirs,                  \* directories that exist
  files,                 \* per output path: "absent", "partial", "complete"
  cacheFiles,            \* per cache file: its content
  \* ---- calls of single functions
  cacheCalls,            \* writeId and findId calls made, with their results
  sbSegments,            \* sponsorComplexFilter: segments after sort and reduce
  \* ---- util/get-link.js: one call of findLinks
  fpc,                   \* "off", "enter", "search", "filter", "returned"
  findArgs,              \* searchTerms, type, exclusionFilters
  searchResult,          \* what yt-search answered
  foundLinks,            \* the array returned
  \* ---- util/format-generators.js: one call of generateTemplateString
  tpc,                   \* "off", "enter", "replace", "returned", "thrown"
  tplArgs,               \* itemName, albumName, artistName, format
  contexts,              \* the contexts forEach has still to replace
  rendered,              \* let result
  tplError,              \* the invalid contexts the error names
  \* ---- util/get-link.js: one call of getLinks
  lkpc,                  \* "off", "enter", "custom", "album", "artist", "returned"
  getArgs,               \* the parameters of getLinks
  links,                 \* let links
  searches,              \* the findLinks calls made: tier, terms and the links found
  \* ---- lib/metadata.js: one call of mergeMetadata
  mpc,                   \* "off", "enter", "fetch", "generic", "update",
                         \* "cleanup", "returned"
  tagCalls,              \* calls of mergeMetadata made for this output
  tagArgs,               \* output and songData
  downloadAttempts,
  coverFile,             \* the file at coverFileName: "absent" or what it holds
                         \* ("foreign": a file that was there before the call)
  artifact,              \* the file at output: its tags and APIC frame
  tagLog,                \* the file and tag operations of this call
  \* ---- util/runner.js: the listings of a run, one after the other
  listings,              \* listings begun
  \* ---- lib/api.js: requestAuthorizedTokens
  apc,                   \* "off", "enter", "launch", "consent", "grant",
                         \* "returned", "thrown", "port in use"
  server,                \* the listener on PORT: "closed" or "listening"
  browser,               \* let browser: "none", "open" or "closed"
  browsersLeft,          \* browsers of earlier calls that were never closed
  authCalls              \* calls of requestAuthorizedTokens made

gateVars == <<clock, nextTokenRefreshTime, accessToken, refreshTokenStored,
              cli, gpc, tries, lastError, gateResult, invocations,
              waits, errs, credLog, credFails>>
listVars == <<lpc, total, pageCap, offset, tracks, fetched, gateCalls>>
dlVars == <<dpc, youtubeLinks, attemptCount, downloadSuccess, complexFilter,
            sbAnswer, outputFile, plans, attempts, dResult>>
runVars == <<inputs, downloadLyrics, downloadReport, cacheFileIsRelative, rpc,
             inputIdx, listIdx, itemIdx, inputState, flags, ops, ytLinks,
             listResults, report, dirs, files, cacheFiles>>
findVars == <<fpc, findArgs, searchResult, foundLinks>>
unitVars == <<cacheCalls, sbSegments, findVars>>
tplVars == <<tpc, tplArgs, contexts, rendered, tplError>>
getVars == <<lkpc, getArgs, links, searches>>
tagVars == <<mpc, tagCalls, tagArgs, downloadAttempts, coverFile, artifact,
             tagLog>>
sessVars == <<listings>>
authVars == <<apc, server, browser, browsersLeft, authCalls>>
vars == <<gateVars, listVars, dlVars, runVars, unitVars, tplVars, getVars, tagVars, sessVars, authVars>>

ApiErrors == {"e1", "e2"}

(***************************************************************************)
(* lib/api.js: verifyCredentials, checkCredentials, setTokens              *)
(***************************************************************************)
\* verifyCredentials: !nextTokenRefreshTime || nextTokenRefreshTime < new Date()
Stale(next, now) == next = Unset \/ next < now

\* cliInputs() of util/setup.js: the types of the inputs, and the username,
\* password and login options ("" when not given).
SavedTypes == {"savedAlbums", "savedPlaylists", "savedTracks", "savedShows"}
CliInputs ==
  [inputs : {<<"playlist">>, <<"playlist", "savedTracks">>, <<"savedShows">>},
   username : {"", "u"}, password : {"", "p"}, login : BOOLEAN]
NoCli == [inputs |-> <<>>, username |-> "", password |-> "", login |-> FALSE]

\* const requiresLogin = inputs.find(input => input.type === ...SAVED_...)
RequiresLogin(c) == \E n \in DOMAIN c.inputs : c.inputs[n] \in SavedTypes
\* const requestingLogin = (username && password) || login
RequestingLogin(c) == (c.username # "" /\ c.password # "") \/ c.login

\* checkCredentials picks one strategy: refresh when a refresh token is
\* stored, else the authorization flow or the client-credentials grant.
\* A slip: the saved collections among the inputs are not looked at.
CredStrategyLoginOnly(rt, c) ==
  IF rt # None THEN "refresh"
  ELSE IF RequestingLogin(c) THEN "authorize" ELSE "anonymous"

CredStrategy(rt, c) ==
  IF rt # None THEN "refresh"
  ELSE IF RequiresLogin(c) \/ RequestingLogin(c) THEN "authorize"
       ELSE "anonymous"

\* The refresh_token field of a grant's body: the authorization-code grant
\* carries one, the client-credentials grant none, a refresh either.
GrantRefreshTokens(strategy) ==
  CASE strategy = "authorize" -> {"rt"}
    [] strategy = "anonymous" -> {None}
    [] OTHER -> {"rt", None}

\* A slip: verifyCredentials inside the try block, its error caught and
\* the attempt retried after the wait.
CredFailureRetried(strategy) ==
  /\ gpc' = "wait"
  /\ gateResult' = gateResult
  /\ credFails' = credFails + 1
  /\ UNCHANGED <<accessToken, refreshTokenStored, tries, lastError, waits>>

\* The outcome of verifyCredentials when the credential step fails.
CredFailure(strategy) ==
  /\ gpc' = "thrown"
  /\ gateResult' = [kind |-> "credential", strategy |-> strategy]
  /\ credFails' = credFails + 1
  /\ UNCHANGED <<accessToken, refreshTokenStored, tries, lastError, waits>>

\* setTokens(body): both tokens are overwritten by the body's fields.
SetTokens(strategy, rt) ==
  /\ accessToken' = strategy
  /\ refreshTokenStored' = rt

VerifyCredentials ==
  /\ gpc = "verify"
  /\ tries <= maxRetries
  /\ IF Stale(nextTokenRefreshTime, clock)
     THEN LET strategy == CredStrategy(refreshTokenStored, cli) IN
          /\ nextTokenRefreshTime' = clock + REFRESH_ACCESS_TOKEN_SECONDS
          /\ credLog' = Append(credLog, strategy)
          /\ \/ /\ \E rt \in GrantRefreshTokens(strategy) : SetTokens(strategy, rt)
                /\ gpc' = "call"
                /\ UNCHANGED <<gateResult, credFails, tries, lastError, waits>>
             \/ CredFailure(strategy)
     ELSE /\ gpc' = "call"
          /\ UNCHANGED <<nextTokenRefreshTime, accessToken, refreshTokenStored,
                         credLog, gateResult, credFails, tries, lastError, waits>>
  /\ UNCHANGED <<clock, cli, invocations, errs, listVars, dlVars, runVars, unitVars, tplVars, getVars, tagVars, sessVars, authVars>>

(***************************************************************************)
(* lib/api.js: callSpotifyApi                                              *)
(***************************************************************************)
\* The page the provider answers a request at offset off, limit lim.
ProviderPage(off, lim) ==
  LET n == IF off >= total THEN 0 ELSE Min(Min(lim, pageCap), total - off)
  IN  [items |-> [i \in 1..n |-> off + i], total |-> total]

\* A slip: the last wait before the final attempt is left out.
WaitsBeforeRetrySkipsLast(t) == t < maxRetries - 1

\* if (tries < maxRetries) await setTimeout(...)
WaitsBeforeRetry(t) == t < maxRetries

\* A slip: lastError keeps the first error instead of the latest.
CatchErrorKeepsFirst(e) ==
  /\ lastError' = IF lastError = None THEN e ELSE lastError
  /\ errs' = Append(errs, e)
  /\ IF WaitsBeforeRetry(tries)
     THEN gpc' = "wait" /\ tries' = tries
     ELSE gpc' = "verify" /\ tries' = tries + 1
  /\ UNCHANGED gateResult

\* catch (error) { lastError = error; ... }
CatchError(e) ==
  /\ lastError' = e
  /\ errs' = Append(errs, e)
  /\ IF WaitsBeforeRetry(tries)
     THEN gpc' = "wait" /\ tries' = tries
     ELSE gpc' = "verify" /\ tries' = tries + 1
  /\ UNCHANGED gateResult

GateEnter ==
  /\ gpc' = "verify"
  /\ tries' = 1
  /\ lastError' = None
  /\ gateResult' = None
  /\ invocations' = 0
  /\ waits' = <<>>
  /\ errs' = <<>>
  /\ credLog' = <<>>
  /\ credFails' = 0
  /\ UNCHANGED <<clock, nextTokenRefreshTime, accessToken, refreshTokenStored,
                 cli>>

\* try { return await apiCall(); } catch ...
ApiCall ==
  /\ gpc = "call"
  /\ invocations' = invocations + 1
  /\ \/ /\ gpc' = "returned"
        /\ gateResult' = [kind |-> "value",
                          page |-> ProviderPage(offset, MAX_LIMIT_DEFAULT)]
        /\ UNCHANGED <<lastError, errs, tries>>
     \/ \E e \in ApiErrors : CatchError(e)
  /\ UNCHANGED <<clock, nextTokenRefreshTime, accessToken, refreshTokenStored,
                 cli, waits, credLog, credFails, listVars, dlVars, runVars, unitVars, tplVars, getVars, tagVars, sessVars, authVars>>

\* await new Promise(resolve => setTimeout(resolve, TIMEOUT_RETRY * 1000)); tries++
Wait ==
  /\ gpc = "wait"
  /\ clock + TIMEOUT_RETRY <= MaxClock
  /\ clock' = clock + TIMEOUT_RETRY
  /\ waits' = Append(waits, TIMEOUT_RETRY)
  /\ tries' = tries + 1
  /\ gpc' = "verify"
  /\ UNCHANGED <<nextTokenRefreshTime, accessToken, refreshTokenStored,
                 cli, lastError, gateResult, invocations, errs,
                 credLog, credFails, listVars, dlVars, runVars, unitVars, tplVars, getVars, tagVars, sessVars, authVars>>

\* throw new Error(`Spotify API failed after ${maxRetries} retries: ${lastError.message}`)
Exhausted ==
  /\ gpc = "verify"
  /\ tries > maxRetries
  /\ gpc' = "thrown"
  /\ gateResult' = [kind |-> "terminal", attempts |-> maxRetries,
                    message |-> lastError]
  /\ UNCHANGED <<clock, nextTokenRefreshTime, accessToken, refreshTokenStored,
                 cli, tries, lastError, invocations, waits, errs,
                 credLog, credFails, listVars, dlVars, runVars, unitVars, tplVars, getVars, tagVars, sessVars, authVars>>

\* Time passes between any two steps.
Tick ==
  /\ clock < MaxClock
  /\ clock' = clock + 1
  /\ UNCHANGED <<nextTokenRefreshTime, accessToken, refreshTokenStored,
                 cli, gpc, tries, lastError, gateResult, invocations,
                 waits, errs, credLog, credFails, listVars, dlVars, runVars, unitVars, tplVars, getVars, tagVars, sessVars, authVars>>

(***************************************************************************)
(* lib/api.js: the page loop of extractPlaylist, extractAlbum,             *)
(* extractArtistAlbums, extractShowEpisodes and the extractSaved* listings *)
(***************************************************************************)
\* A slip: <= in the loop condition.
MorePagesInclusive(n, reported) == n <= reported

\* } while (tracks.length < playlistData.total);
MorePages(n, reported) == n < reported

\* playlistData = await callSpotifyApi(...getPlaylistTracks({limit, offset}))
ListFetch ==
  /\ lpc = "fetch"
  /\ gpc = "idle"
  /\ GateEnter
  /\ lpc' = "awaiting"
  /\ gateCalls' = gateCalls + 1
  /\ UNCHANGED <<total, pageCap, offset, tracks, fetched, dlVars, runVars, unitVars, tplVars, getVars, tagVars, sessVars, authVars>>

\* tracks.push(...playlistData.items); offset += MAX_LIMIT_DEFAULT; while (...)
ListPage ==
  /\ lpc = "awaiting"
  /\ gpc = "returned"
  /\ LET page == gateResult.page
         acc == tracks \o page.items
     IN  /\ tracks' = acc
         /\ offset' = offset + MAX_LIMIT_DEFAULT
         /\ fetched' = Append(fetched, offset)
         /\ lpc' = IF MorePages(Len(acc), page.total)
                   THEN IF Len(fetched) + 1 < MaxPages THEN "fetch" ELSE "cut"
                   ELSE "done"
  /\ gpc' = "idle"
  /\ UNCHANGED <<clock, nextTokenRefreshTime, accessToken, refreshTokenStored,
                 cli, tries, lastError, gateResult, invocations, waits,
                 errs, credLog, credFails, total, pageCap, gateCalls, dlVars, runVars, unitVars, tplVars, getVars, tagVars, sessVars, authVars>>

\* An error thrown by callSpotifyApi leaves the listing.
ListAbort ==
  /\ lpc = "awaiting"
  /\ gpc = "thrown"
  /\ lpc' = "failed"
  /\ gpc' = "idle"
  /\ UNCHANGED <<clock, nextTokenRefreshTime, accessToken, refreshTokenStored,
                 cli, tries, lastError, gateResult, invocations, waits,
                 errs, credLog, credFails, total, pageCap, offset, tracks,
                 fetched, gateCalls, dlVars, runVars, unitVars, tplVars, getVars, tagVars, sessVars, authVars>>

InitGate ==
  /\ clock = 0
  /\ nextTokenRefreshTime = Unset
  /\ accessToken = None
  /\ refreshTokenStored = None
  /\ cli \in {c \in CliInputs : c.inputs = <<"playlist">> /\ c.username = ""
                                 /\ c.password = ""}
  /\ gpc = "idle"
  /\ tries = 1
  /\ lastError = None
  /\ gateResult = None
  /\ invocations = 0
  /\ waits = <<>>
  /\ errs = <<>>
  /\ credLog = <<>>
  /\ credFails = 0
  /\ lpc = "fetch"
  /\ total \in 0..MaxTotal
  /\ pageCap \in {MAX_LIMIT_DEFAULT, MAX_LIMIT_DEFAULT - 1}
  /\ offset = 0
  /\ tracks = <<>>
  /\ fetched = <<>>
  /\ gateCalls = 0
  /\ dpc = "off"
  /\ youtubeLinks = <<>>
  /\ attemptCount = 0
  /\ downloadSuccess = FALSE
  /\ complexFilter = <<>>
  /\ sbAnswer = [asked |-> FALSE, error |-> FALSE, segments |-> <<>>]
  /\ outputFile = [state |-> "absent"]
  /\ plans = <<>>
  /\ attempts = <<>>
  /\ dResult = None
  /\ inputs = <<>>
  /\ downloadLyrics = FALSE
  /\ downloadReport = FALSE
  /\ cacheFileIsRelative = TRUE
  /\ rpc = "off"
  /\ inputIdx = 1
  /\ listIdx = 1
  /\ itemIdx = 1
  /\ inputState = <<>>
  /\ flags = <<>>
  /\ ops = <<>>
  /\ ytLinks = <<>>
  /\ listResults = <<>>
  /\ report = <<>>
  /\ dirs = {}
  /\ files = <<>>
  /\ cacheFiles = <<>>
  /\ cacheCalls = <<>>
  /\ sbSegments = <<>>
  /\ fpc = "off"
  /\ findArgs = None
  /\ searchResult = [answer |-> "none"]
  /\ foundLinks = <<>>
  /\ tpc = "off"
  /\ tplArgs = None
  /\ contexts = <<>>
  /\ rendered = <<>>
  /\ tplError = <<>>
  /\ lkpc = "off"
  /\ getArgs = None
  /\ links = <<>>
  /\ searches = <<>>
  /\ mpc = "off"
  /\ tagCalls = 0
  /\ tagArgs = None
  /\ downloadAttempts = 0
  /\ coverFile = "absent"
  /\ artifact = [onDisk |-> TRUE, tagged |-> FALSE, apic |-> None]
  /\ tagLog = <<>>
  /\ listings = 1
  /\ apc = "off"
  /\ server = "closed"
  /\ browser = None
  /\ browsersLeft = 0
  /\ authCalls = 0

NextGate ==
  \/ ListFetch
  \/ VerifyCredentials
  \/ ApiCall
  \/ Wait
  \/ Exhausted
  \/ ListPage
  \/ ListAbort
  \/ Tick

SpecGate == InitGate /\ [][NextGate]_vars

(***************************************************************************)
(* lib/api.js: the gated calls of a whole run, listing after listing       *)
(***************************************************************************)
\* Listings of a run.
MaxListings == 3

\* run() goes on with the next input, whose listing starts, after a listing
\* has ended or has raised (the error is caught per input).
NextListing ==
  /\ lpc \in {"done", "failed", "cut"}
  /\ gpc = "idle"
  /\ listings < MaxListings
  /\ listings' = listings + 1
  /\ lpc' = "fetch"
  /\ offset' = 0
  /\ tracks' = <<>>
  /\ fetched' = <<>>
  /\ gateCalls' = 0
  /\ UNCHANGED <<gateVars, total, pageCap, dlVars, runVars, unitVars, tplVars,
                 getVars, tagVars, authVars>>

InitSession ==
  /\ clock = 0
  /\ nextTokenRefreshTime = Unset
  /\ accessToken = None
  /\ refreshTokenStored = None
  /\ cli \in CliInputs
  /\ gpc = "idle"
  /\ tries = 1
  /\ lastError = None
  /\ gateResult = None
  /\ invocations = 0
  /\ waits = <<>>
  /\ errs = <<>>
  /\ credLog = <<>>
  /\ credFails = 0
  /\ lpc = "fetch"
  /\ total = MAX_LIMIT_DEFAULT + 1
  /\ pageCap = MAX_LIMIT_DEFAULT
  /\ offset = 0
  /\ tracks = <<>>
  /\ fetched = <<>>
  /\ gateCalls = 0
  /\ dpc = "off"
  /\ youtubeLinks = <<>>
  /\ attemptCount = 0
  /\ downloadSuccess = FALSE
  /\ complexFilter = <<>>
  /\ sbAnswer = [asked |-> FALSE, error |-> FALSE, segments |-> <<>>]
  /\ outputFile = [state |-> "absent"]
  /\ plans = <<>>
  /\ attempts = <<>>
  /\ dResult = None
  /\ inputs = <<>>
  /\ downloadLyrics = FALSE
  /\ downloadReport = FALSE
  /\ cacheFileIsRelative = TRUE
  /\ rpc = "off"
  /\ inputIdx = 1
  /\ listIdx = 1
  /\ itemIdx = 1
  /\ inputState = <<>>
  /\ flags = <<>>
  /\ ops = <<>>
  /\ ytLinks = <<>>
  /\ listResults = <<>>
  /\ report = <<>>
  /\ dirs = {}
  /\ files = <<>>
  /\ cacheFiles = <<>>
  /\ cacheCalls = <<>>
  /\ sbSegments = <<>>
  /\ fpc = "off"
  /\ findArgs = None
  /\ searchResult = [answer |-> "none"]
  /\ foundLinks = <<>>
  /\ tpc = "off"
  /\ tplArgs = None
  /\ contexts = <<>>
  /\ rendered = <<>>
  /\ tplError = <<>>
  /\ lkpc = "off"
  /\ getArgs = None
  /\ links = <<>>
  /\ searches = <<>>
  /\ mpc = "off"
  /\ tagCalls = 0
  /\ tagArgs = None
  /\ downloadAttempts = 0
  /\ coverFile = "absent"
  /\ artifact = [onDisk |-> TRUE, tagged |-> FALSE, apic |-> None]
  /\ tagLog = <<>>
  /\ listings = 1
  /\ apc = "off"
  /\ server = "closed"
  /\ browser = None
  /\ browsersLeft = 0
  /\ authCalls = 0

NextSession ==
  \/ ListFetch
  \/ VerifyCredentials
  \/ ApiCall
  \/ Wait
  \/ Exhausted
  \/ ListPage
  \/ ListAbort
  \/ Tick
  \/ NextListing

SpecSession == InitSession /\ [][NextSession]_vars

(***************************************************************************)
(* lib/downloader.js: sponsorComplexFilter                                 *)
(***************************************************************************)
\* The shapes of a link: new URL(link) throws on "malformed"; "noVideoId"
\* parses and has no v parameter; "video" parses and has one.
LinkShapes == {"malformed", "noVideoId", "video"}

Seg(a, b) == [startTime |-> a, endTime |-> b]

\* What sponsorBlock.getSegments may answer: an error, or a list of segments
\* in any order.
SegmentLists == {<<>>, <<Seg(15, 25), Seg(10, 20), Seg(40, 50)>>}
NotAsked == [asked |-> FALSE, error |-> FALSE, segments |-> <<>>]
SbAnswers ==
  {[asked |-> TRUE, error |-> TRUE, segments |-> <<>>]}
    \cup {[asked |-> TRUE, error |-> FALSE, segments |-> l] : l \in SegmentLists}

\* The provider is asked only for a link that parses and has a video id.
SbAnswersFor(link) == IF link = "video" THEN SbAnswers ELSE {NotAsked}

\* A slip: the end of the later segment is taken.
MaxTakesFirst(a, b) == a

\* Math.max(endTime, previousSegment.endTime)
Max(a, b) == IF a > b THEN a ELSE b

\* .sort((a, b) => a.startTime - b.startTime): a stable sort by startTime.
InsertByStart(sorted, x) ==
  LET k == Cardinality({i \in 1..Len(sorted) : sorted[i].startTime <= x.startTime})
  IN  SubSeq(sorted, 1, k) \o <<x>> \o SubSeq(sorted, k + 1, Len(sorted))

RECURSIVE SortByStart(_)
SortByStart(segs) ==
  IF segs = <<>> THEN <<>>
  ELSE InsertByStart(SortByStart(SubSeq(segs, 1, Len(segs) - 1)), segs[Len(segs)])

\* .reduce(...): a segment that starts before the previous one ends extends
\* it, any other segment is pushed.
RECURSIVE MergeSegments(_)
MergeSegments(sorted) ==
  IF sorted = <<>> THEN <<>>
  ELSE LET acc == MergeSegments(SubSeq(sorted, 1, Len(sorted) - 1))
           cur == sorted[Len(sorted)]
       IN  IF acc # <<>> /\ acc[Len(acc)].endTime > cur.startTime
           THEN [acc EXCEPT ![Len(acc)].endTime = Max(cur.endTime, @)]
           ELSE Append(acc, Seg(cur.startTime, cur.endTime))

\* The end of the last atrim, which has no end= option.
Open == 0 - 1
NoFilter == <<>>

\* A slip: every atrim before a segment starts at 0.
KeepSegmentsFromZero(segments) ==
  [i \in 1..(Len(segments) + 1) |->
     IF i <= Len(segments)
     THEN [start |-> 0, end |-> segments[i].startTime]
     ELSE [start |-> segments[Len(segments)].endTime, end |-> Open]]

\* The atrim operations of the filter graph, in order: one before each
\* segment, and the open-ended one after the last.
KeepSegments(segments) ==
  [i \in 1..(Len(segments) + 1) |->
     IF i <= Len(segments)
     THEN [start |-> IF i = 1 THEN 0 ELSE segments[i - 1].endTime,
           end |-> segments[i].startTime]
     ELSE [start |-> segments[Len(segments)].endTime, end |-> Open]]

\* A slip: the provider's error is not caught.
SponsorComplexFilterNoCatch(link, answer) ==
  IF link = "malformed" \/ answer.error THEN [threw |-> TRUE, filter |-> NoFilter]
  ELSE IF link = "noVideoId" THEN [threw |-> FALSE, filter |-> NoFilter]
  ELSE LET segments == MergeSegments(SortByStart(answer.segments))
       IN  IF Len(segments) = 0 THEN [threw |-> FALSE, filter |-> NoFilter]
           ELSE [threw |-> FALSE, filter |-> KeepSegments(segments)]

\* sponsorComplexFilter(link): the filter, null (NoFilter), or an exception.
SponsorComplexFilter(link, answer) ==
  IF link = "malformed" THEN [threw |-> TRUE, filter |-> NoFilter]
  ELSE IF link = "noVideoId" THEN [threw |-> FALSE, filter |-> NoFilter]
  ELSE IF answer.error THEN [threw |-> FALSE, filter |-> NoFilter]
  ELSE LET segments == MergeSegments(SortByStart(answer.segments))
       IN  IF Len(segments) = 0 THEN [threw |-> FALSE, filter |-> NoFilter]
           ELSE [threw |-> FALSE, filter |-> KeepSegments(segments)]

(***************************************************************************)
(* lib/downloader.js: downloader                                           *)
(***************************************************************************)
\* How the promise of doDownload settles: ffmpeg's 'end', or its 'error'
\* for a transcoding error, an error of the input stream, or the timeout.
TranscodeOutcomes == {"end", "transcodeError", "streamError", "timeout"}

\* A slip: the loop does not test downloadSuccess.
LoopCondIgnoresSuccess(cnt, n, success) == cnt < n

\* while (attemptCount < youtubeLinks.length && !downloadSuccess)
LoopCond(cnt, n, success) == cnt < n /\ ~success

\* if (!youtubeLinks || youtubeLinks.length === 0) return false;
DownloaderEnter ==
  /\ dpc = "enter"
  /\ IF Len(youtubeLinks) = 0
     THEN dpc' = "returned" /\ dResult' = "false"
     ELSE dpc' = "loop" /\ dResult' = dResult
  /\ attemptCount' = 0
  /\ downloadSuccess' = FALSE
  /\ UNCHANGED <<youtubeLinks, complexFilter, sbAnswer, outputFile, plans,
                 attempts>>
  /\ UNCHANGED <<gateVars, listVars, runVars, unitVars, tplVars, getVars, tagVars, sessVars, authVars>>

\* const complexFilter = await sponsorComplexFilter(link);
Plan ==
  /\ dpc = "loop"
  /\ LoopCond(attemptCount, Len(youtubeLinks), downloadSuccess)
  /\ LET link == youtubeLinks[attemptCount + 1] IN
     \E answer \in SbAnswersFor(link) :
       LET r == SponsorComplexFilter(link, answer) IN
       /\ sbAnswer' = answer
       /\ plans' = Append(plans, attemptCount + 1)
       /\ IF r.threw
          THEN /\ dpc' = "thrown"
               /\ dResult' = "TypeError: Invalid URL"
               /\ UNCHANGED complexFilter
          ELSE /\ dpc' = "download"
               /\ complexFilter' = r.filter
               /\ UNCHANGED dResult
  /\ UNCHANGED <<youtubeLinks, attemptCount, downloadSuccess, outputFile,
                 attempts>>
  /\ UNCHANGED <<gateVars, listVars, runVars, unitVars, tplVars, getVars, tagVars, sessVars, authVars>>

\* A slip: the catch block returns false instead of going on.
DownloadFailedAborts(k) ==
  /\ attemptCount' = attemptCount + 1
  /\ downloadSuccess' = downloadSuccess
  /\ dpc' = "returned"
  /\ dResult' = "false"
  /\ outputFile' = outputFile

\* catch (error) { attemptCount++; ... }: the failed transcode may have
\* left a partial file at the output path.
DownloadFailed(k) ==
  /\ attemptCount' = attemptCount + 1
  /\ downloadSuccess' = downloadSuccess
  /\ dpc' = "loop"
  /\ dResult' = dResult
  /\ outputFile' \in {outputFile,
                      [state |-> "partial", from |-> k, filter |-> complexFilter]}

\* try { await new Promise(doDownload); downloadSuccess = true; } catch ...
Download ==
  /\ dpc = "download"
  /\ LET k == attemptCount + 1 IN
     \E o \in TranscodeOutcomes :
       /\ attempts' = Append(attempts, [link |-> k, filter |-> complexFilter,
                                        outcome |-> o])
       /\ IF o = "end"
          THEN /\ downloadSuccess' = TRUE
               /\ outputFile' = [state |-> "complete", from |-> k,
                                 filter |-> complexFilter]
               /\ dpc' = "loop"
               /\ UNCHANGED <<attemptCount, dResult>>
          ELSE DownloadFailed(k)
  /\ UNCHANGED <<youtubeLinks, complexFilter, sbAnswer, plans>>
  /\ UNCHANGED <<gateVars, listVars, runVars, unitVars, tplVars, getVars, tagVars, sessVars, authVars>>

\* return downloadSuccess;
DownloaderReturn ==
  /\ dpc = "loop"
  /\ ~LoopCond(attemptCount, Len(youtubeLinks), downloadSuccess)
  /\ dpc' = "returned"
  /\ dResult' = IF downloadSuccess THEN "true" ELSE "false"
  /\ UNCHANGED <<youtubeLinks, attemptCount, downloadSuccess, complexFilter,
                 sbAnswer, outputFile, plans, attempts>>
  /\ UNCHANGED <<gateVars, listVars, runVars, unitVars, tplVars, getVars, tagVars, sessVars, authVars>>

\* downloader called with any list of at most MaxLinks links.
InitAcquire ==
  /\ clock = 0
  /\ nextTokenRefreshTime = Unset
  /\ accessToken = None
  /\ refreshTokenStored = None
  /\ cli = NoCli
  /\ gpc = "idle"
  /\ tries = 1
  /\ lastError = None
  /\ gateResult = None
  /\ invocations = 0
  /\ waits = <<>>
  /\ errs = <<>>
  /\ credLog = <<>>
  /\ credFails = 0
  /\ lpc = "off"
  /\ total = 0
  /\ pageCap = MAX_LIMIT_DEFAULT
  /\ offset = 0
  /\ tracks = <<>>
  /\ fetched = <<>>
  /\ gateCalls = 0
  /\ dpc = "enter"
  /\ youtubeLinks \in UNION {[1..n -> LinkShapes] : n \in 0..MaxLinks}
  /\ attemptCount = 0
  /\ downloadSuccess = FALSE
  /\ complexFilter = NoFilter
  /\ sbAnswer = NotAsked
  /\ outputFile = [state |-> "absent"]
  /\ plans = <<>>
  /\ attempts = <<>>
  /\ dResult = None
  /\ inputs = <<>>
  /\ downloadLyrics = FALSE
  /\ downloadReport = FALSE
  /\ cacheFileIsRelative = TRUE
  /\ rpc = "off"
  /\ inputIdx = 1
  /\ listIdx = 1
  /\ itemIdx = 1
  /\ inputState = <<>>
  /\ flags = <<>>
  /\ ops = <<>>
  /\ ytLinks = <<>>
  /\ listResults = <<>>
  /\ report = <<>>
  /\ dirs = {}
  /\ files = <<>>
  /\ cacheFiles = <<>>
  /\ cacheCalls = <<>>
  /\ sbSegments = <<>>
  /\ fpc = "off"
  /\ findArgs = None
  /\ searchResult = [answer |-> "none"]
  /\ foundLinks = <<>>
  /\ tpc = "off"
  /\ tplArgs = None
  /\ contexts = <<>>
  /\ rendered = <<>>
  /\ tplError = <<>>
  /\ lkpc = "off"
  /\ getArgs = None
  /\ links = <<>>
  /\ searches = <<>>
  /\ mpc = "off"
  /\ tagCalls = 0
  /\ tagArgs = None
  /\ downloadAttempts = 0
  /\ coverFile = "absent"
  /\ artifact = [onDisk |-> TRUE, tagged |-> FALSE, apic |-> None]
  /\ tagLog = <<>>
  /\ listings = 1
  /\ apc = "off"
  /\ server = "closed"
  /\ browser = None
  /\ browsersLeft = 0
  /\ authCalls = 0

NextAcquire ==
  \/ DownloaderEnter
  \/ Plan
  \/ Download
  \/ DownloaderReturn

SpecAcquire == InitAcquire /\ [][NextAcquire]_vars

(***************************************************************************)
(* lib/cache.js: getCacheFile, findId, writeId                             *)
(***************************************************************************)
\* getCacheFile(dir): a relative cacheFile lies in dir, an absolute one is
\* the same file for every dir.
GetCacheFile(dir) == IF cacheFileIsRelative THEN dir ELSE "absolute"

\* Text is a sequence of symbols: letters, the blank, the line feed, and
\* the eight characters 'spotify ' as one symbol.
SchemePrefix == "spotify "
LineFeed == "\n"
Blank == " "
WhiteSpace == {Blank, LineFeed}

\* `spotify ${id}\n`
CacheLine(id) == <<SchemePrefix>> \o id \o <<LineFeed>>

\* A slip: the file is written anew.
WriteFileSync(content, data) == data
\* fs.appendFileSync(cacheFile, data, 'utf-8')
AppendFileSync(content, data) == content \o data

\* cacheContent.split('\n')
RECURSIVE SplitLines(_)
SplitLines(text) ==
  IF \A i \in 1..Len(text) : text[i] # LineFeed THEN <<text>>
  ELSE LET i == CHOOSE j \in 1..Len(text) :
                  /\ text[j] = LineFeed
                  /\ \A h \in 1..(j - 1) : text[h] # LineFeed
       IN  <<SubSeq(text, 1, i - 1)>> \o SplitLines(SubSeq(text, i + 1, Len(text)))

\* line.replace('spotify ', ''): the first occurrence is removed.
ReplaceScheme(line) ==
  IF \A i \in 1..Len(line) : line[i] # SchemePrefix THEN line
  ELSE LET i == CHOOSE j \in 1..Len(line) :
                  /\ line[j] = SchemePrefix
                  /\ \A h \in 1..(j - 1) : line[h] # SchemePrefix
       IN  SubSeq(line, 1, i - 1) \o SubSeq(line, i + 1, Len(line))

\* .trim()
RECURSIVE Trim(_)
Trim(line) ==
  IF line = <<>> THEN line
  ELSE IF line[1] \in WhiteSpace THEN Trim(SubSeq(line, 2, Len(line)))
  ELSE IF line[Len(line)] \in WhiteSpace THEN Trim(SubSeq(line, 1, Len(line) - 1))
  ELSE line

\* line.replace('spotify ', '').trim()
ParseLine(line) == Trim(ReplaceScheme(line))

\* .split('\n').map(...).filter(line => line)
CachedIds(text) ==
  LET lines == SplitLines(text)
  IN  {ParseLine(lines[n]) : n \in 1..Len(lines)} \ {<<>>}

\* findId(id, dir): false for an empty id or dir and for a missing file.
FindId(id, dir) ==
  /\ id # <<>>
  /\ dir # ""
  /\ id \in CachedIds(cacheFiles[GetCacheFile(dir)])

(***************************************************************************)
(* util/runner.js: processInput, downloadList, generateReport, run         *)
(***************************************************************************)
Track(id, dir) == [id |-> id, dir |-> dir, URL |-> None]

\* What processInput builds for an input: a song playlist of two tracks in
\* two directories; an artist whose two albums hold the same track; a
\* YouTube link, whose one item carries the link as its URL and its id; an
\* input of a type processInput does not know.  url is the shape of the
\* link and text its characters.
InputKinds ==
  {[type |-> "playlist", url |-> None, text |-> <<>>],
   [type |-> "artist", url |-> None, text |-> <<>>],
   [type |-> "youtube", url |-> "video", text |-> <<"y">>],
   [type |-> "youtube", url |-> "malformed", text |-> <<"y">>],
   [type |-> "unsupported", url |-> None, text |-> <<>>]}

ListsOf(input) ==
  CASE input.type = "playlist" ->
         <<[type |-> "playlist", items |-> <<Track(<<"a">>, "d1"), Track(<<"b">>, "d2")>>]>>
    [] input.type = "artist" ->
         <<[type |-> "artist", items |-> <<Track(<<"a">>, "d1")>>],
           [type |-> "artist", items |-> <<Track(<<"a">>, "d1")>>]>>
    [] input.type = "youtube" ->
         <<[type |-> "youtube",
            items |-> <<[id |-> input.text, dir |-> "yt", URL |-> input.url]>>]>>
    [] OTHER -> <<>>

Dirs == {"d1", "d2", "yt"}
ItemIds == {<<"a">>, <<"b">>, <<"y">>, <<"y", Blank>>}
CachePaths == Dirs \cup {"absolute"}

\* The inputs that go through callSpotifyApi.
UsesApi(input) == input.type \in {"playlist", "artist"}

\* What getLinks may return for an item without URL.
LinkResults == {<<>>, <<"video">>}

ItemKeys(ins) ==
  {k \in (1..Len(ins)) \X (1..2) \X (1..2) :
     /\ k[2] <= Len(ListsOf(ins[k[1]]))
     /\ k[3] <= Len(ListsOf(ins[k[1]])[k[2]].items)}

ItemAt(k) == ListsOf(inputs[k[1]])[k[2]].items[k[3]]
Cur == <<inputIdx, listIdx, itemIdx>>
CurLists == ListsOf(inputs[inputIdx])
CurItems == CurLists[listIdx].items
CurItem == CurItems[itemIdx]
PathOf(item) == <<item.dir, item.id>>

NewFlags == [cached |-> "unset", failed |-> "unset", lyrics |-> "unset"]

\* The steps taken for the item under the cursor, in the order taken.
Did(step) == ops' = [ops EXCEPT ![Cur] = Append(@, step)]

\* continue / the end of the loop body: on to the next item.
NextItem ==
  /\ rpc' = "item"
  /\ itemIdx' = itemIdx + 1
  /\ UNCHANGED <<inputIdx, listIdx>>

\* A slip: the error is not caught in run() and reaches main().
CatchInputRethrows(why) ==
  /\ inputState' = [inputState EXCEPT ![inputIdx] = why]
  /\ rpc' = "raised"
  /\ UNCHANGED <<inputIdx, listIdx, itemIdx>>

\* The catch block of run(): the error is logged and the next input taken.
CatchInput(why) ==
  /\ inputState' = [inputState EXCEPT ![inputIdx] = why]
  /\ inputIdx' = inputIdx + 1
  /\ rpc' = "input"
  /\ UNCHANGED <<listIdx, itemIdx>>

dlIdle ==
  /\ dpc' = "off"
  /\ youtubeLinks' = <<>>
  /\ attemptCount' = 0
  /\ downloadSuccess' = FALSE
  /\ complexFilter' = NoFilter
  /\ sbAnswer' = NotAsked
  /\ outputFile' = [state |-> "absent"]
  /\ plans' = <<>>
  /\ attempts' = <<>>
  /\ dResult' = None

\* const lists = await processInput(input);
ProcessInput ==
  /\ rpc = "input"
  /\ inputIdx <= Len(inputs)
  /\ LET input == inputs[inputIdx] IN
     \/ /\ input.type = "unsupported"
        /\ CatchInput("unsupported")
     \/ /\ UsesApi(input)
        /\ CatchInput("apiError")
     \/ /\ input.type # "unsupported"
        /\ inputState' = [inputState EXCEPT ![inputIdx] = "lists"]
        /\ listIdx' = 1
        /\ rpc' = "list"
        /\ UNCHANGED <<inputIdx, itemIdx>>
  /\ UNCHANGED <<inputs, downloadLyrics, downloadReport, cacheFileIsRelative,
                 flags, ops, ytLinks, listResults, report, dirs, files,
                 cacheFiles>>
  /\ UNCHANGED <<gateVars, listVars, dlVars, unitVars, tplVars, getVars, tagVars, sessVars, authVars>>

\* for (const [index, list] of lists.entries()) downloadList(list)
NextList ==
  /\ rpc = "list"
  /\ IF listIdx <= Len(CurLists)
     THEN /\ rpc' = "item"
          /\ itemIdx' = 1
          /\ UNCHANGED <<inputIdx, listIdx, inputState>>
     ELSE /\ rpc' = "input"
          /\ inputIdx' = inputIdx + 1
          /\ inputState' = [inputState EXCEPT ![inputIdx] = "done"]
          /\ UNCHANGED <<listIdx, itemIdx>>
  /\ UNCHANGED <<inputs, downloadLyrics, downloadReport, cacheFileIsRelative,
                 flags, ops, ytLinks, listResults, report, dirs, files,
                 cacheFiles>>
  /\ UNCHANGED <<gateVars, listVars, dlVars, unitVars, tplVars, getVars, tagVars, sessVars, authVars>>

\* A slip: the cached item is also marked as not failed.
MarkCachedAndDone(k) ==
  flags' = [flags EXCEPT ![k].cached = "true", ![k].failed = "false"]

\* nextItem.cached = true;
MarkCached(k) == flags' = [flags EXCEPT ![k].cached = "true"]

\* A slip: the loop is left instead of continued.
MarkFailedAndStop(k) ==
  flags' = [j \in DOMAIN flags |->
              IF j[1] = k[1] /\ j[2] = k[2] /\ j[3] >= k[3]
              THEN [flags[j] EXCEPT !.failed = "true"] ELSE flags[j]]

\* nextItem.failed = true;
MarkFailed(k) == flags' = [flags EXCEPT ![k].failed = "true"]

\* const cached = findId(itemId, itemDir); if (cached) { ...; continue; }
CheckCache ==
  /\ rpc = "item"
  /\ itemIdx <= Len(CurItems)
  /\ IF FindId(CurItem.id, CurItem.dir)
     THEN /\ Did("findId=true")
          /\ MarkCached(Cur)
          /\ NextItem
     ELSE /\ Did("findId=false")
          /\ rpc' = "mkdir"
          /\ UNCHANGED <<flags, inputIdx, listIdx, itemIdx>>
  /\ UNCHANGED <<inputs, downloadLyrics, downloadReport, cacheFileIsRelative,
                 inputState, ytLinks, listResults, report, dirs, files,
                 cacheFiles>>
  /\ UNCHANGED <<gateVars, listVars, dlVars, unitVars, tplVars, getVars, tagVars, sessVars, authVars>>

\* return list; if (downloadReport) listResults.push(downloadResult);
ListEnd ==
  /\ rpc = "item"
  /\ itemIdx > Len(CurItems)
  /\ listResults' = IF downloadReport
                    THEN Append(listResults, <<inputIdx, listIdx>>)
                    ELSE listResults
  /\ listIdx' = listIdx + 1
  /\ rpc' = "list"
  /\ UNCHANGED <<inputs, downloadLyrics, downloadReport, cacheFileIsRelative,
                 inputIdx, itemIdx, inputState, flags, ops, ytLinks, report,
                 dirs, files, cacheFiles>>
  /\ UNCHANGED <<gateVars, listVars, dlVars, unitVars, tplVars, getVars, tagVars, sessVars, authVars>>

\* try { fs.mkdirSync(itemDir, { recursive: true }); } catch { failed; continue; }
MakeDir ==
  /\ rpc = "mkdir"
  /\ \/ /\ Did("mkdir")
        /\ dirs' = dirs \cup {CurItem.dir}
        /\ rpc' = IF downloadLyrics THEN "lyrics" ELSE "links"
        /\ UNCHANGED <<flags, inputIdx, listIdx, itemIdx>>
     \/ /\ CurItem.dir \notin dirs
        /\ Did("mkdir=fail")
        /\ MarkFailed(Cur)
        /\ NextItem
        /\ UNCHANGED dirs
  /\ UNCHANGED <<inputs, downloadLyrics, downloadReport, cacheFileIsRelative,
                 inputState, ytLinks, listResults, report, files, cacheFiles>>
  /\ UNCHANGED <<gateVars, listVars, dlVars, unitVars, tplVars, getVars, tagVars, sessVars, authVars>>

\* nextItem.lyrics = await downloadSubtitles(itemName, artistName);
Lyrics ==
  /\ rpc = "lyrics"
  /\ Did("lyrics")
  /\ flags' = [flags EXCEPT ![Cur].lyrics = "set"]
  /\ rpc' = "links"
  /\ UNCHANGED <<inputs, downloadLyrics, downloadReport, cacheFileIsRelative,
                 inputIdx, listIdx, itemIdx, inputState, ytLinks, listResults,
                 report, dirs, files, cacheFiles>>
  /\ UNCHANGED <<gateVars, listVars, dlVars, unitVars, tplVars, getVars, tagVars, sessVars, authVars>>

\* A slip: getLinks is asked for every item.
ResolveLinksAlwaysSearches(item) ==
  {[ranker |-> TRUE, links |-> l] : l \in LinkResults}

\* nextItem.URL ? [nextItem.URL] : await getLinks({...}): the list of
\* links, and whether getLinks was called for it.
ResolveLinks(item) ==
  IF item.URL # None
  THEN {[ranker |-> FALSE, links |-> <<item.URL>>]}
  ELSE {[ranker |-> TRUE, links |-> l] : l \in LinkResults}

\* const ytLinks = nextItem.URL ? [nextItem.URL] : await getLinks({...});
\* if (!ytLinks || ytLinks.length === 0) { failed; continue; }
GetLinks ==
  /\ rpc = "links"
  /\ \E r \in ResolveLinks(CurItem) :
       /\ ytLinks' = r.links
       /\ Did(IF ~r.ranker THEN "URL"
              ELSE IF Len(r.links) = 0 THEN "getLinks=0" ELSE "getLinks")
       /\ IF Len(r.links) = 0
          THEN MarkFailed(Cur) /\ NextItem
          ELSE /\ rpc' = "download"
               /\ UNCHANGED <<flags, inputIdx, listIdx, itemIdx>>
  /\ UNCHANGED <<inputs, downloadLyrics, downloadReport, cacheFileIsRelative,
                 inputState, listResults, report, dirs, files, cacheFiles>>
  /\ UNCHANGED <<gateVars, listVars, dlVars, unitVars, tplVars, getVars, tagVars, sessVars, authVars>>

\* const downloadSuccessful = await downloader(ytLinks, outputFilePath);
StartDownload ==
  /\ rpc = "download"
  /\ Did("downloader")
  /\ rpc' = "downloading"
  /\ dpc' = "enter"
  /\ youtubeLinks' = ytLinks
  /\ outputFile' = [state |-> files[PathOf(CurItem)]]
  /\ UNCHANGED <<attemptCount, downloadSuccess, complexFilter, sbAnswer, plans,
                 attempts, dResult>>
  /\ UNCHANGED <<inputs, downloadLyrics, downloadReport, cacheFileIsRelative,
                 inputIdx, listIdx, itemIdx, inputState, flags, ytLinks,
                 listResults, report, dirs, files, cacheFiles>>
  /\ UNCHANGED <<gateVars, listVars, unitVars, tplVars, getVars, tagVars, sessVars, authVars>>

\* A slip: the result of downloader is not looked at.
DownloadSuccessfulAlways(result) == TRUE
\* if (downloadSuccessful)
DownloadSuccessful(result) == result = "true"

\* if (downloadSuccessful) { ... } else { nextItem.failed = true; }
AfterDownload ==
  /\ rpc = "downloading"
  /\ dpc = "returned"
  /\ files' = [files EXCEPT ![PathOf(CurItem)] = outputFile.state]
  /\ Did(IF dResult = "true" THEN "downloader=true" ELSE "downloader=false")
  /\ IF DownloadSuccessful(dResult)
     THEN /\ rpc' = "tag"
          /\ UNCHANGED <<flags, inputIdx, listIdx, itemIdx>>
     ELSE MarkFailed(Cur) /\ NextItem
  /\ dlIdle
  /\ UNCHANGED <<inputs, downloadLyrics, downloadReport, cacheFileIsRelative,
                 inputState, ytLinks, listResults, report, dirs,
                 cacheFiles>>
  /\ UNCHANGED <<gateVars, listVars, unitVars, tplVars, getVars, tagVars, sessVars, authVars>>

\* An error thrown by downloader leaves downloadList and is caught by run().
DownloadThrew ==
  /\ rpc = "downloading"
  /\ dpc = "thrown"
  /\ files' = [files EXCEPT ![PathOf(CurItem)] = outputFile.state]
  /\ Did("downloader=threw")
  /\ CatchInput("threw")
  /\ dlIdle
  /\ UNCHANGED <<inputs, downloadLyrics, downloadReport, cacheFileIsRelative,
                 flags, ytLinks, listResults, report, dirs, cacheFiles>>
  /\ UNCHANGED <<gateVars, listVars, unitVars, tplVars, getVars, tagVars, sessVars, authVars>>

\* await mergeMetadata(outputFilePath, nextItem);
Tag ==
  /\ rpc = "tag"
  /\ Did("mergeMetadata")
  /\ rpc' = "writeId"
  /\ UNCHANGED <<inputs, downloadLyrics, downloadReport, cacheFileIsRelative,
                 inputIdx, listIdx, itemIdx, inputState, flags, ytLinks,
                 listResults, report, dirs, files, cacheFiles>>
  /\ UNCHANGED <<gateVars, listVars, dlVars, unitVars, tplVars, getVars, tagVars, sessVars, authVars>>

\* A slip: the error of the append leaves writeId and downloadList.
WriteFailedPropagates(k) ==
  /\ Did("writeId=fail")
  /\ UNCHANGED <<cacheFiles, flags>>
  /\ CatchInput("threw")

\* catch (error) { logInfo(...) } in writeId, then nextItem.failed = false.
WriteFailed(k) ==
  /\ Did("writeId=fail")
  /\ UNCHANGED <<cacheFiles, inputState>>
  /\ flags' = [flags EXCEPT ![k].failed = "false"]
  /\ NextItem

\* writeId(itemDir, itemId): the line is appended, or the error is logged.
\* nextItem.failed = false;
WriteId ==
  /\ rpc = "writeId"
  /\ \/ /\ CurItem.id # <<>>
        /\ Did("writeId")
        /\ cacheFiles' = [cacheFiles EXCEPT ![GetCacheFile(CurItem.dir)] =
                            AppendFileSync(@, CacheLine(CurItem.id))]
        /\ flags' = [flags EXCEPT ![Cur].failed = "false"]
        /\ NextItem
        /\ UNCHANGED inputState
     \/ WriteFailed(Cur)
  /\ UNCHANGED <<inputs, downloadLyrics, downloadReport, cacheFileIsRelative,
                 ytLinks, listResults, report, dirs, files>>
  /\ UNCHANGED <<gateVars, listVars, dlVars, unitVars, tplVars, getVars, tagVars, sessVars, authVars>>

\* generateReport: per list the successful and the total count and the
\* failed items.
ReportOf(results) ==
  [n \in 1..Len(results) |->
     LET keys == {k \in DOMAIN flags : k[1] = results[n][1] /\ k[2] = results[n][2]}
         failedItems == {k \in keys : flags[k].failed = "true"}
     IN  [list |-> results[n],
          successCount |-> Cardinality(keys) - Cardinality(failedItems),
          totalItems |-> Cardinality(keys),
          failedItems |-> failedItems]]

\* if (downloadReport) await generateReport(listResults);
Finish ==
  /\ rpc = "input"
  /\ inputIdx > Len(inputs)
  /\ report' = IF downloadReport /\ Len(listResults) > 0
               THEN <<ReportOf(listResults)>> ELSE report
  /\ rpc' = "done"
  /\ UNCHANGED <<inputs, downloadLyrics, downloadReport, cacheFileIsRelative,
                 inputIdx, listIdx, itemIdx, inputState, flags, ops, ytLinks,
                 listResults, dirs, files, cacheFiles>>
  /\ UNCHANGED <<gateVars, listVars, dlVars, unitVars, tplVars, getVars, tagVars, sessVars, authVars>>

\* main(): await Runner(); process.exit(0); and process.exit(1) in the catch.
MainExit ==
  /\ rpc \in {"done", "raised"}
  /\ rpc' = IF rpc = "done" THEN "exit 0" ELSE "exit 1"
  /\ UNCHANGED <<inputs, downloadLyrics, downloadReport, cacheFileIsRelative,
                 inputIdx, listIdx, itemIdx, inputState, flags, ops, ytLinks,
                 listResults, report, dirs, files, cacheFiles>>
  /\ UNCHANGED <<gateVars, listVars, dlVars, unitVars, tplVars, getVars, tagVars, sessVars, authVars>>

\* run() over MaxInputs inputs, started on an empty output directory.
InitRun ==
  /\ clock = 0
  /\ nextTokenRefreshTime = Unset
  /\ accessToken = None
  /\ refreshTokenStored = None
  /\ cli = NoCli
  /\ gpc = "idle"
  /\ tries = 1
  /\ lastError = None
  /\ gateResult = None
  /\ invocations = 0
  /\ waits = <<>>
  /\ errs = <<>>
  /\ credLog = <<>>
  /\ credFails = 0
  /\ lpc = "off"
  /\ total = 0
  /\ pageCap = MAX_LIMIT_DEFAULT
  /\ offset = 0
  /\ tracks = <<>>
  /\ fetched = <<>>
  /\ gateCalls = 0
  /\ dpc = "off"
  /\ youtubeLinks = <<>>
  /\ attemptCount = 0
  /\ downloadSuccess = FALSE
  /\ complexFilter = NoFilter
  /\ sbAnswer = NotAsked
  /\ outputFile = [state |-> "absent"]
  /\ plans = <<>>
  /\ attempts = <<>>
  /\ dResult = None
  /\ inputs \in [1..MaxInputs -> InputKinds]
  /\ downloadLyrics \in BOOLEAN
  /\ downloadReport \in BOOLEAN
  /\ cacheFileIsRelative \in BOOLEAN
  /\ rpc = "input"
  /\ inputIdx = 1
  /\ listIdx = 1
  /\ itemIdx = 1
  /\ inputState = [n \in 1..MaxInputs |-> "pending"]
  /\ flags = [k \in ItemKeys(inputs) |-> NewFlags]
  /\ ops = [k \in ItemKeys(inputs) |-> <<>>]
  /\ ytLinks = <<>>
  /\ listResults = <<>>
  /\ report = <<>>
  /\ dirs = {}
  /\ files = [f \in Dirs \X ItemIds |-> "absent"]
  /\ cacheFiles = [c \in CachePaths |-> <<>>]
  /\ cacheCalls = <<>>
  /\ sbSegments = <<>>
  /\ fpc = "off"
  /\ findArgs = None
  /\ searchResult = [answer |-> "none"]
  /\ foundLinks = <<>>
  /\ tpc = "off"
  /\ tplArgs = None
  /\ contexts = <<>>
  /\ rendered = <<>>
  /\ tplError = <<>>
  /\ lkpc = "off"
  /\ getArgs = None
  /\ links = <<>>
  /\ searches = <<>>
  /\ mpc = "off"
  /\ tagCalls = 0
  /\ tagArgs = None
  /\ downloadAttempts = 0
  /\ coverFile = "absent"
  /\ artifact = [onDisk |-> TRUE, tagged |-> FALSE, apic |-> None]
  /\ tagLog = <<>>
  /\ listings = 1
  /\ apc = "off"
  /\ server = "closed"
  /\ browser = None
  /\ browsersLeft = 0
  /\ authCalls = 0

NextRun ==
  \/ ProcessInput
  \/ NextList
  \/ CheckCache
  \/ ListEnd
  \/ MakeDir
  \/ Lyrics
  \/ GetLinks
  \/ StartDownload
  \/ DownloaderEnter
  \/ Plan
  \/ Download
  \/ DownloaderReturn
  \/ AfterDownload
  \/ DownloadThrew
  \/ Tag
  \/ WriteId
  \/ Finish
  \/ MainExit

SpecRun == InitRun /\ [][NextRun]_vars

(***************************************************************************)
(* util/runner.js: the same input processed a second time                  *)
(***************************************************************************)
\* The inputs of InputKinds, and a YouTube link given with a blank after it:
\* new URL() accepts the link, and the item's id is the text as given.
RerunKinds ==
  InputKinds \cup {[type |-> "youtube", url |-> "video", text |-> <<"y", Blank>>]}

\* The second processing of an input stands for a second run over it: the
\* items are built anew by processInput and the cache files are those the
\* first processing left.
InitRerun ==
  /\ clock = 0
  /\ nextTokenRefreshTime = Unset
  /\ accessToken = None
  /\ refreshTokenStored = None
  /\ cli = NoCli
  /\ gpc = "idle"
  /\ tries = 1
  /\ lastError = None
  /\ gateResult = None
  /\ invocations = 0
  /\ waits = <<>>
  /\ errs = <<>>
  /\ credLog = <<>>
  /\ credFails = 0
  /\ lpc = "off"
  /\ total = 0
  /\ pageCap = MAX_LIMIT_DEFAULT
  /\ offset = 0
  /\ tracks = <<>>
  /\ fetched = <<>>
  /\ gateCalls = 0
  /\ dpc = "off"
  /\ youtubeLinks = <<>>
  /\ attemptCount = 0
  /\ downloadSuccess = FALSE
  /\ complexFilter = NoFilter
  /\ sbAnswer = NotAsked
  /\ outputFile = [state |-> "absent"]
  /\ plans = <<>>
  /\ attempts = <<>>
  /\ dResult = None
  /\ inputs \in {<<input, input>> : input \in RerunKinds}
  /\ downloadLyrics \in BOOLEAN
  /\ downloadReport \in BOOLEAN
  /\ cacheFileIsRelative \in BOOLEAN
  /\ rpc = "input"
  /\ inputIdx = 1
  /\ listIdx = 1
  /\ itemIdx = 1
  /\ inputState = [n \in 1..Len(inputs) |-> "pending"]
  /\ flags = [k \in ItemKeys(inputs) |-> NewFlags]
  /\ ops = [k \in ItemKeys(inputs) |-> <<>>]
  /\ ytLinks = <<>>
  /\ listResults = <<>>
  /\ report = <<>>
  /\ dirs = {}
  /\ files = [f \in Dirs \X ItemIds |-> "absent"]
  /\ cacheFiles = [c \in CachePaths |-> <<>>]
  /\ cacheCalls = <<>>
  /\ sbSegments = <<>>
  /\ fpc = "off"
  /\ findArgs = None
  /\ searchResult = [answer |-> "none"]
  /\ foundLinks = <<>>
  /\ tpc = "off"
  /\ tplArgs = None
  /\ contexts = <<>>
  /\ rendered = <<>>
  /\ tplError = <<>>
  /\ lkpc = "off"
  /\ getArgs = None
  /\ links = <<>>
  /\ searches = <<>>
  /\ mpc = "off"
  /\ tagCalls = 0
  /\ tagArgs = None
  /\ downloadAttempts = 0
  /\ coverFile = "absent"
  /\ artifact = [onDisk |-> TRUE, tagged |-> FALSE, apic |-> None]
  /\ tagLog = <<>>
  /\ listings = 1
  /\ apc = "off"
  /\ server = "closed"
  /\ browser = None
  /\ browsersLeft = 0
  /\ authCalls = 0

SpecRerun == InitRerun /\ [][NextRun]_vars

(***************************************************************************)
(* lib/cache.js called directly: writeId(dir, id) and findId(id, dir)      *)
(***************************************************************************)
\* Calls made in one behaviour.
MaxCacheCalls == 3

\* Ids handed to the two functions: the empty string, plain ids, an id that
\* starts with the scheme word, an id that ends in a blank, and an id with
\* a line feed in it.
IdTexts ==
  {<<>>, <<"a">>, <<SchemePrefix, "a">>, <<"a", Blank>>,
   <<"a", LineFeed, "b">>}

CacheDirs == {"", "d1", "d2"}

\* writeId(dir, id): nothing for an empty dir or id; otherwise the line is
\* appended, unless mkdirSync or appendFileSync throws, which is caught.
WriteIdCall ==
  /\ Len(cacheCalls) < MaxCacheCalls
  /\ \E dir \in CacheDirs, id \in IdTexts :
       IF dir = "" \/ id = <<>>
       THEN /\ cacheCalls' = Append(cacheCalls,
                 [fn |-> "writeId", dir |-> dir, id |-> id,
                  file |-> "untouched", result |-> "undefined",
                  raised |-> FALSE])
            /\ UNCHANGED cacheFiles
       ELSE \/ /\ cacheFiles' = [cacheFiles EXCEPT ![GetCacheFile(dir)] =
                                   AppendFileSync(@, CacheLine(id))]
               /\ cacheCalls' = Append(cacheCalls,
                    [fn |-> "writeId", dir |-> dir, id |-> id,
                     file |-> "appended", result |-> "undefined",
                     raised |-> FALSE])
            \/ /\ UNCHANGED cacheFiles
               /\ cacheCalls' = Append(cacheCalls,
                    [fn |-> "writeId", dir |-> dir, id |-> id,
                     file |-> "write failed", result |-> "undefined",
                     raised |-> FALSE])
  /\ UNCHANGED <<inputs, downloadLyrics, downloadReport, cacheFileIsRelative,
                 rpc, inputIdx, listIdx, itemIdx, inputState, flags, ops,
                 ytLinks, listResults, report, dirs, files, sbSegments,
                 findVars, tplVars, getVars, tagVars, sessVars, authVars>>
  /\ UNCHANGED <<gateVars, listVars, dlVars>>

\* findId(id, dir): false for an empty id or dir, for a missing file and
\* when readFileSync throws; otherwise whether the parsed lines include id.
FindIdCall ==
  /\ Len(cacheCalls) < MaxCacheCalls
  /\ \E dir \in CacheDirs, id \in IdTexts, readable \in BOOLEAN :
       LET file == IF dir = "" \/ id = <<>> THEN "untouched"
                   ELSE IF cacheFiles[GetCacheFile(dir)] = <<>> THEN "absent"
                   ELSE IF readable THEN "read" ELSE "unreadable"
       IN  cacheCalls' = Append(cacheCalls,
             [fn |-> "findId", dir |-> dir, id |-> id, file |-> file,
              result |-> IF file = "read" /\ FindId(id, dir)
                         THEN "true" ELSE "false",
              raised |-> FALSE])
  /\ UNCHANGED <<inputs, downloadLyrics, downloadReport, cacheFileIsRelative,
                 rpc, inputIdx, listIdx, itemIdx, inputState, flags, ops,
                 ytLinks, listResults, report, dirs, files, cacheFiles,
                 sbSegments,
                 findVars, tplVars, getVars, tagVars, sessVars, authVars>>
  /\ UNCHANGED <<gateVars, listVars, dlVars>>

\* No cache file exists yet; cacheFile is relative or absolute.
InitCache ==
  /\ clock = 0
  /\ nextTokenRefreshTime = Unset
  /\ accessToken = None
  /\ refreshTokenStored = None
  /\ cli = NoCli
  /\ gpc = "idle"
  /\ tries = 1
  /\ lastError = None
  /\ gateResult = None
  /\ invocations = 0
  /\ waits = <<>>
  /\ errs = <<>>
  /\ credLog = <<>>
  /\ credFails = 0
  /\ lpc = "off"
  /\ total = 0
  /\ pageCap = MAX_LIMIT_DEFAULT
  /\ offset = 0
  /\ tracks = <<>>
  /\ fetched = <<>>
  /\ gateCalls = 0
  /\ dpc = "off"
  /\ youtubeLinks = <<>>
  /\ attemptCount = 0
  /\ downloadSuccess = FALSE
  /\ complexFilter = NoFilter
  /\ sbAnswer = NotAsked
  /\ outputFile = [state |-> "absent"]
  /\ plans = <<>>
  /\ attempts = <<>>
  /\ dResult = None
  /\ inputs = <<>>
  /\ downloadLyrics = FALSE
  /\ downloadReport = FALSE
  /\ cacheFileIsRelative \in BOOLEAN
  /\ rpc = "off"
  /\ inputIdx = 1
  /\ listIdx = 1
  /\ itemIdx = 1
  /\ inputState = <<>>
  /\ flags = <<>>
  /\ ops = <<>>
  /\ ytLinks = <<>>
  /\ listResults = <<>>
  /\ report = <<>>
  /\ dirs = {}
  /\ files = <<>>
  /\ cacheFiles = [c \in CachePaths |-> <<>>]
  /\ cacheCalls = <<>>
  /\ sbSegments = <<>>
  /\ fpc = "off"
  /\ findArgs = None
  /\ searchResult = [answer |-> "none"]
  /\ foundLinks = <<>>
  /\ tpc = "off"
  /\ tplArgs = None
  /\ contexts = <<>>
  /\ rendered = <<>>
  /\ tplError = <<>>
  /\ lkpc = "off"
  /\ getArgs = None
  /\ links = <<>>
  /\ searches = <<>>
  /\ mpc = "off"
  /\ tagCalls = 0
  /\ tagArgs = None
  /\ downloadAttempts = 0
  /\ coverFile = "absent"
  /\ artifact = [onDisk |-> TRUE, tagged |-> FALSE, apic |-> None]
  /\ tagLog = <<>>
  /\ listings = 1
  /\ apc = "off"
  /\ server = "closed"
  /\ browser = None
  /\ browsersLeft = 0
  /\ authCalls = 0

NextCache ==
  \/ WriteIdCall
  \/ FindIdCall

SpecCache == InitCache /\ [][NextCache]_vars

(***************************************************************************)
(* lib/downloader.js: sponsorComplexFilter on the provider's segments      *)
(***************************************************************************)
\* Segments lie in 0..MaxTime, and the provider returns at most MaxSegments.
MaxTime == 3
MaxSegments == 3

\* A segment of the provider: startTime < endTime.
Segments ==
  {s \in {Seg(a, b) : a \in 0..MaxTime, b \in 0..MaxTime} :
     s.startTime < s.endTime}

\* What getSegments may return, in any order.
SegmentInputs ==
  UNION {[1..n -> Segments] : n \in 0..MaxSegments} \cup SegmentLists

\* The filter graph: the atrim operations with their labels [0a], [1a], ...
\* and the concat over the labels.
FilterGraph(segments) ==
  LET keeps == KeepSegments(segments) IN
    [trims |-> [i \in 1..Len(keeps) |->
                  [start |-> keeps[i].start, end |-> keeps[i].end,
                   label |-> i - 1]],
     concat |-> [inputs |-> [i \in 1..(Len(segments) + 1) |-> i - 1],
                 n |-> Len(segments) + 1]]

\* segments = (await sponsorBlock.getSegments(...)).sort(...).reduce(...)
SortAndMerge ==
  /\ dpc = "segments"
  /\ sbSegments' = MergeSegments(SortByStart(sbAnswer.segments))
  /\ dpc' = "graph"
  /\ UNCHANGED <<youtubeLinks, attemptCount, downloadSuccess, complexFilter,
                 sbAnswer, outputFile, plans, attempts, dResult, cacheCalls,
                 findVars, tplVars, getVars, tagVars, sessVars, authVars>>
  /\ UNCHANGED <<gateVars, listVars, runVars>>

\* if (segments.length === 0) return null; ... return complexFilter.join('\n')
BuildGraph ==
  /\ dpc = "graph"
  /\ complexFilter' = IF Len(sbSegments) = 0 THEN NoFilter
                      ELSE FilterGraph(sbSegments)
  /\ dpc' = "filter returned"
  /\ UNCHANGED <<youtubeLinks, attemptCount, downloadSuccess, sbAnswer,
                 outputFile, plans, attempts, dResult, unitVars, tplVars, getVars, tagVars, sessVars, authVars>>
  /\ UNCHANGED <<gateVars, listVars, runVars>>

\* sponsorComplexFilter(link) for a link with a video id, for each answer
\* of the provider.
InitFilter ==
  /\ clock = 0
  /\ nextTokenRefreshTime = Unset
  /\ accessToken = None
  /\ refreshTokenStored = None
  /\ cli = NoCli
  /\ gpc = "idle"
  /\ tries = 1
  /\ lastError = None
  /\ gateResult = None
  /\ invocations = 0
  /\ waits = <<>>
  /\ errs = <<>>
  /\ credLog = <<>>
  /\ credFails = 0
  /\ lpc = "off"
  /\ total = 0
  /\ pageCap = MAX_LIMIT_DEFAULT
  /\ offset = 0
  /\ tracks = <<>>
  /\ fetched = <<>>
  /\ gateCalls = 0
  /\ dpc = "segments"
  /\ youtubeLinks = <<"video">>
  /\ attemptCount = 0
  /\ downloadSuccess = FALSE
  /\ complexFilter = NoFilter
  /\ sbAnswer \in {[asked |-> TRUE, error |-> FALSE, segments |-> l] :
                     l \in SegmentInputs}
  /\ outputFile = [state |-> "absent"]
  /\ plans = <<>>
  /\ attempts = <<>>
  /\ dResult = None
  /\ inputs = <<>>
  /\ downloadLyrics = FALSE
  /\ downloadReport = FALSE
  /\ cacheFileIsRelative = TRUE
  /\ rpc = "off"
  /\ inputIdx = 1
  /\ listIdx = 1
  /\ itemIdx = 1
  /\ inputState = <<>>
  /\ flags = <<>>
  /\ ops = <<>>
  /\ ytLinks = <<>>
  /\ listResults = <<>>
  /\ report = <<>>
  /\ dirs = {}
  /\ files = <<>>
  /\ cacheFiles = <<>>
  /\ cacheCalls = <<>>
  /\ sbSegments = <<>>
  /\ fpc = "off"
  /\ findArgs = None
  /\ searchResult = [answer |-> "none"]
  /\ foundLinks = <<>>
  /\ tpc = "off"
  /\ tplArgs = None
  /\ contexts = <<>>
  /\ rendered = <<>>
  /\ tplError = <<>>
  /\ lkpc = "off"
  /\ getArgs = None
  /\ links = <<>>
  /\ searches = <<>>
  /\ mpc = "off"
  /\ tagCalls = 0
  /\ tagArgs = None
  /\ downloadAttempts = 0
  /\ coverFile = "absent"
  /\ artifact = [onDisk |-> TRUE, tagged |-> FALSE, apic |-> None]
  /\ tagLog = <<>>
  /\ listings = 1
  /\ apc = "off"
  /\ server = "closed"
  /\ browser = None
  /\ browsersLeft = 0
  /\ authCalls = 0

NextFilter ==
  \/ SortAndMerge
  \/ BuildGraph

SpecFilter == InitFilter /\ [][NextFilter]_vars

(***************************************************************************)
(* util/get-link.js: findLinks                                             *)
(***************************************************************************)
\* Longest list of videos the search answers with, the long lists aside.
MaxVideos == 3
\* Constants.YOUTUBE_SEARCH.MAX_MINUTES is set in util/constants.js.
MAX_MINUTES == 1

\* Strings are sequences of characters; "L" and "V" are the capitals of "l"
\* and "v".
LowerOf(c) == CASE c = "L" -> "l" [] c = "V" -> "v" [] OTHER -> c
ToLowerCase(str) == [i \in DOMAIN str |-> LowerOf(str[i])]
\* String.prototype.includes
Includes(str, sub) ==
  \E i \in 0..(Len(str) - Len(sub)) : SubSeq(str, i + 1, i + Len(sub)) = sub

\* The values of Constants.INPUT_TYPES.SONG, and two types outside it.
SongTypes == {"song", "playlist", "album", "artist"}
ItemTypes == {"song", "album", "episode", "youtube"}

YoutubeOrigin == "https://youtube.com"
Video(title, description, seconds, url) ==
  [title |-> title, description |-> description, seconds |-> seconds,
   url |-> url]
\* The videos of a search result: plain ones with a relative and with a full
\* url, ones whose title or description holds the word "lv" in either case,
\* and ones with every kind of duration (one has no seconds at all).
VideoKinds ==
  {Video(<<"x">>, <<>>, 30, <<"/watch", 1>>),
   Video(<<"x">>, <<"x">>, 30, <<YoutubeOrigin, "/watch", 2>>),
   Video(<<"x", "L", "V">>, <<>>, 30, <<"/watch", 3>>),
   Video(<<"x">>, <<"l", "v", "x">>, 30, <<"/watch", 4>>),
   [title |-> <<"x">>, description |-> <<>>, url |-> <<"/watch", 5>>],
   Video(<<"x">>, <<>>, 0, <<"/watch", 6>>),
   Video(<<"x">>, <<>>, 0 - 5, <<"/watch", 7>>),
   Video(<<"x">>, <<>>, MAX_MINUTES * 60 - 1, <<"/watch", 8>>),
   Video(<<"x">>, <<>>, MAX_MINUTES * 60, <<"/watch", 9>>),
   Video(<<"x">>, <<>>, MAX_MINUTES * 60 + 1, <<"/watch", 10>>)}
\* Lists longer than the ten findLinks keeps: passing videos, with one of
\* duration 0 in third place.
LongList(n) ==
  [i \in 1..n |-> Video(<<"x">>, <<>>, IF i = 3 THEN 0 ELSE 30,
                        <<"/watch", 10 + i>>)]
VideoLists ==
  UNION {[1..n -> VideoKinds] : n \in 0..MaxVideos}
    \cup {LongList(n) : n \in 10..12}
\* search(searchTerms): it raises, or answers nothing, an object without
\* videos, or an object with videos.
SearchResults ==
  {[answer |-> "raised"], [answer |-> "nothing"], [answer |-> "no videos"]}
    \cup {[answer |-> "videos", videos |-> l] : l \in VideoLists}
ExclusionFilters ==
  {<<>>, << <<"l", "v">> >>, << <<"L", "v">> >>, << <<"q">>, <<"v", "x">> >>}
FindArgs ==
  [searchTerms : {"", "terms"}, type : ItemTypes,
   exclusionFilters : ExclusionFilters]

RECURSIVE SelectSeqBy(_, _, _, _)
\* Array.prototype.filter with the first callback (excluded = FALSE) or the
\* second one of findLinks
NotExcluded(video, exclusionFilters) ==
  \/ exclusionFilters = <<>>
  \/ LET titleMatch ==
           \E n \in DOMAIN exclusionFilters :
             Includes(ToLowerCase(video.title),
                      ToLowerCase(exclusionFilters[n]))
         descMatch ==
           \E n \in DOMAIN exclusionFilters :
             Includes(ToLowerCase(video.description),
                      ToLowerCase(exclusionFilters[n]))
     IN ~titleMatch /\ ~descMatch
DurationOk(video, isSong) ==
  IF "seconds" \notin DOMAIN video \/ video.seconds <= 0
  THEN FALSE
  ELSE ~isSong \/ video.seconds < MAX_MINUTES * 60
SelectSeqBy(videos, exclusionFilters, isSong, second) ==
  IF videos = <<>> THEN <<>>
  ELSE LET keep == IF second THEN DurationOk(Head(videos), isSong)
                   ELSE NotExcluded(Head(videos), exclusionFilters)
           rest == SelectSeqBy(Tail(videos), exclusionFilters, isSong, second)
       IN IF keep THEN <<Head(videos)>> \o rest ELSE rest
\* .slice(0, 10)
Slice10(arr) == SubSeq(arr, 1, Min(Len(arr), 10))
\* the .map callback
FullUrl(url) ==
  IF url # <<>> /\ Head(url) = YoutubeOrigin THEN url
  ELSE <<YoutubeOrigin>> \o url
FilterVideos(videos, type, exclusionFilters) ==
  LET isSong == type \in SongTypes
      first == SelectSeqBy(videos, exclusionFilters, isSong, FALSE)
      second == SelectSeqBy(first, exclusionFilters, isSong, TRUE)
      kept == Slice10(second)
  IN [i \in DOMAIN kept |-> FullUrl(kept[i].url)]

\* if (!searchTerms) return []
FindLinksEnter ==
  /\ fpc = "enter"
  /\ IF findArgs.searchTerms = ""
     THEN fpc' = "returned" /\ foundLinks' = <<>>
     ELSE fpc' = "search" /\ UNCHANGED foundLinks
  /\ UNCHANGED <<gateVars, listVars, dlVars, runVars, cacheCalls, sbSegments,
                 tplVars, getVars, tagVars, sessVars, authVars, findArgs, searchResult>>

\* const result = await search(searchTerms), the catch, and the test of
\* result and result.videos
Search ==
  /\ fpc = "search"
  /\ \E result \in SearchResults :
       /\ searchResult' = result
       /\ IF result.answer # "videos"
          THEN fpc' = "returned" /\ foundLinks' = <<>>
          ELSE fpc' = "filter" /\ UNCHANGED foundLinks
  /\ UNCHANGED <<gateVars, listVars, dlVars, runVars, cacheCalls, sbSegments,
                 tplVars, getVars, tagVars, sessVars, authVars, findArgs>>

\* return result.videos.filter(..).filter(..).slice(0, 10).map(..)
FilterResults ==
  /\ fpc = "filter"
  /\ foundLinks' = FilterVideos(searchResult.videos, findArgs.type,
                                findArgs.exclusionFilters)
  /\ fpc' = "returned"
  /\ UNCHANGED <<gateVars, listVars, dlVars, runVars, cacheCalls, sbSegments,
                 tplVars, getVars, tagVars, sessVars, authVars, findArgs, searchResult>>

InitRank ==
  /\ clock = 0
  /\ nextTokenRefreshTime = Unset
  /\ accessToken = None
  /\ refreshTokenStored = None
  /\ cli = NoCli
  /\ gpc = "idle"
  /\ tries = 1
  /\ lastError = None
  /\ gateResult = None
  /\ invocations = 0
  /\ waits = <<>>
  /\ errs = <<>>
  /\ credLog = <<>>
  /\ credFails = 0
  /\ lpc = "off"
  /\ total = 0
  /\ pageCap = MAX_LIMIT_DEFAULT
  /\ offset = 0
  /\ tracks = <<>>
  /\ fetched = <<>>
  /\ gateCalls = 0
  /\ dpc = "off"
  /\ youtubeLinks = <<"video">>
  /\ attemptCount = 0
  /\ downloadSuccess = FALSE
  /\ complexFilter = NoFilter
  /\ sbAnswer = NotAsked
  /\ outputFile = [state |-> "absent"]
  /\ plans = <<>>
  /\ attempts = <<>>
  /\ dResult = None
  /\ inputs = <<>>
  /\ downloadLyrics = FALSE
  /\ downloadReport = FALSE
  /\ cacheFileIsRelative = TRUE
  /\ rpc = "off"
  /\ inputIdx = 1
  /\ listIdx = 1
  /\ itemIdx = 1
  /\ inputState = <<>>
  /\ flags = <<>>
  /\ ops = <<>>
  /\ ytLinks = <<>>
  /\ listResults = <<>>
  /\ report = <<>>
  /\ dirs = {}
  /\ files = <<>>
  /\ cacheFiles = <<>>
  /\ cacheCalls = <<>>
  /\ sbSegments = <<>>
  /\ fpc = "enter"
  /\ findArgs \in FindArgs
  /\ searchResult = [answer |-> "none"]
  /\ foundLinks = <<>>
  /\ tpc = "off"
  /\ tplArgs = None
  /\ contexts = <<>>
  /\ rendered = <<>>
  /\ tplError = <<>>
  /\ lkpc = "off"
  /\ getArgs = None
  /\ links = <<>>
  /\ searches = <<>>
  /\ mpc = "off"
  /\ tagCalls = 0
  /\ tagArgs = None
  /\ downloadAttempts = 0
  /\ coverFile = "absent"
  /\ artifact = [onDisk |-> TRUE, tagged |-> FALSE, apic |-> None]
  /\ tagLog = <<>>
  /\ listings = 1
  /\ apc = "off"
  /\ server = "closed"
  /\ browser = None
  /\ browsersLeft = 0
  /\ authCalls = 0
NextRank == FindLinksEnter \/ Search \/ FilterResults
SpecRank == InitRank /\ [][NextRank]_vars

(***************************************************************************)
(* util/format-generators.js: generateTemplateString                       *)
(***************************************************************************)
\* Longest format made of arbitrary pieces.
MaxFormat == 4

\* A string is a sequence of pieces: the braces, "$" and "&" (which
\* String.prototype.replace reads in its replacement), "-", and words, each
\* word one piece.
VALID_CONTEXTS == {<<"itemName">>, <<"albumName">>, <<"artistName">>}
FormatPieces == {"{", "}", "itemName", "albumName", "foo", "-"}
Placeholder(name) == <<"{", name, "}">>
Formats ==
  UNION {[1..n -> FormatPieces] : n \in 0..MaxFormat}
    \cup {Placeholder("itemName") \o <<"-">> \o Placeholder("albumName"),
          Placeholder("itemName") \o <<"-">> \o Placeholder("itemName"),
          Placeholder("albumName") \o <<"-">> \o Placeholder("itemName"),
          Placeholder("artistName") \o Placeholder("itemName")
            \o Placeholder("albumName"),
          Placeholder("itemName") \o Placeholder("foo")}
ItemNames == {<<"A">>, <<>>, <<"$", "$">>, <<"$", "&">>, <<"A", "$">>,
              Placeholder("albumName")}
AlbumNames == {<<"B">>, <<>>}
ArtistNames == {<<"C">>}
TemplateArgs ==
  [itemName : ItemNames, albumName : AlbumNames, artistName : ArtistNames,
   format : Formats]

RECURSIVE Contexts(_, _)
\* format.match(/(?<=\{).+?(?=\})/g) from position p on: a match starts
\* right after a "{" and is the shortest non-empty run that a "}" follows;
\* the search goes on where the match ended.
Contexts(format, p) ==
  IF p > Len(format) THEN <<>>
  ELSE LET ends == {q \in p..(Len(format) - 1) : format[q + 1] = "}"}
       IN IF p > 1 /\ format[p - 1] = "{" /\ ends # {}
          THEN LET q == CHOOSE e \in ends : \A o \in ends : e <= o
               IN <<SubSeq(format, p, q)>> \o Contexts(format, q + 1)
          ELSE Contexts(format, p + 1)

RECURSIVE Expand(_, _)
\* The replacement string of String.prototype.replace: "$$" stands for "$"
\* and "$&" for the matched text.
Expand(value, matched) ==
  IF Len(value) < 2 THEN value
  ELSE IF value[1] = "$" /\ value[2] = "$"
       THEN <<"$">> \o Expand(SubSeq(value, 3, Len(value)), matched)
       ELSE IF value[1] = "$" /\ value[2] = "&"
            THEN matched \o Expand(SubSeq(value, 3, Len(value)), matched)
            ELSE <<Head(value)>> \o Expand(Tail(value), matched)

\* str.replace(pattern, value) with a string pattern: the first occurrence
ReplaceFirst(str, pattern, value) ==
  LET at == {i \in 1..(Len(str) - Len(pattern) + 1) :
               SubSeq(str, i, i + Len(pattern) - 1) = pattern}
  IN IF at = {} THEN str
     ELSE LET i == CHOOSE a \in at : \A o \in at : a <= o
          IN SubSeq(str, 1, i - 1) \o Expand(value, pattern)
               \o SubSeq(str, i + Len(pattern), Len(str))

\* contextMap[context]
ContextValue(args, context) ==
  CASE context = <<"itemName">> -> args.itemName
    [] context = <<"albumName">> -> args.albumName
    [] context = <<"artistName">> -> args.artistName

\* if (!format) return ''; the match; the test of the contexts
TemplateEnter ==
  /\ tpc = "enter"
  /\ LET found == Contexts(tplArgs.format, 1)
         invalidContexts == SelectSeq(found, LAMBDA c : c \notin VALID_CONTEXTS)
     IN IF found = <<>>
        THEN /\ tpc' = "returned"
             /\ rendered' = tplArgs.format
             /\ UNCHANGED <<contexts, tplError>>
        ELSE IF invalidContexts # <<>>
             THEN /\ tpc' = "thrown"
                  /\ tplError' = invalidContexts
                  /\ UNCHANGED <<contexts, rendered>>
             ELSE /\ tpc' = "replace"
                  /\ contexts' = found
                  /\ rendered' = tplArgs.format
                  /\ UNCHANGED tplError
  /\ UNCHANGED <<gateVars, listVars, dlVars, runVars, unitVars, getVars, tagVars, sessVars, authVars,
                 tplArgs>>

\* one turn of contexts.forEach
ReplaceContext ==
  /\ tpc = "replace"
  /\ contexts # <<>>
  /\ rendered' = ReplaceFirst(rendered, <<"{">> \o Head(contexts) \o <<"}">>,
                              ContextValue(tplArgs, Head(contexts)))
  /\ contexts' = Tail(contexts)
  /\ UNCHANGED <<gateVars, listVars, dlVars, runVars, unitVars, getVars, tagVars, sessVars, authVars,
                 tplArgs, tpc, tplError>>

\* return result
TemplateReturn ==
  /\ tpc = "replace"
  /\ contexts = <<>>
  /\ tpc' = "returned"
  /\ UNCHANGED <<gateVars, listVars, dlVars, runVars, unitVars, getVars, tagVars, sessVars, authVars,
                 tplArgs, contexts, rendered, tplError>>

InitTemplate ==
  /\ clock = 0
  /\ nextTokenRefreshTime = Unset
  /\ accessToken = None
  /\ refreshTokenStored = None
  /\ cli = NoCli
  /\ gpc = "idle"
  /\ tries = 1
  /\ lastError = None
  /\ gateResult = None
  /\ invocations = 0
  /\ waits = <<>>
  /\ errs = <<>>
  /\ credLog = <<>>
  /\ credFails = 0
  /\ lpc = "off"
  /\ total = 0
  /\ pageCap = MAX_LIMIT_DEFAULT
  /\ offset = 0
  /\ tracks = <<>>
  /\ fetched = <<>>
  /\ gateCalls = 0
  /\ dpc = "off"
  /\ youtubeLinks = <<"video">>
  /\ attemptCount = 0
  /\ downloadSuccess = FALSE
  /\ complexFilter = NoFilter
  /\ sbAnswer = NotAsked
  /\ outputFile = [state |-> "absent"]
  /\ plans = <<>>
  /\ attempts = <<>>
  /\ dResult = None
  /\ inputs = <<>>
  /\ downloadLyrics = FALSE
  /\ downloadReport = FALSE
  /\ cacheFileIsRelative = TRUE
  /\ rpc = "off"
  /\ inputIdx = 1
  /\ listIdx = 1
  /\ itemIdx = 1
  /\ inputState = <<>>
  /\ flags = <<>>
  /\ ops = <<>>
  /\ ytLinks = <<>>
  /\ listResults = <<>>
  /\ report = <<>>
  /\ dirs = {}
  /\ files = <<>>
  /\ cacheFiles = <<>>
  /\ cacheCalls = <<>>
  /\ sbSegments = <<>>
  /\ fpc = "off"
  /\ findArgs = None
  /\ searchResult = [answer |-> "none"]
  /\ foundLinks = <<>>
  /\ tpc = "enter"
  /\ tplArgs \in TemplateArgs
  /\ contexts = <<>>
  /\ rendered = <<>>
  /\ tplError = <<>>
  /\ lkpc = "off"
  /\ getArgs = None
  /\ links = <<>>
  /\ searches = <<>>
  /\ mpc = "off"
  /\ tagCalls = 0
  /\ tagArgs = None
  /\ downloadAttempts = 0
  /\ coverFile = "absent"
  /\ artifact = [onDisk |-> TRUE, tagged |-> FALSE, apic |-> None]
  /\ tagLog = <<>>
  /\ listings = 1
  /\ apc = "off"
  /\ server = "closed"
  /\ browser = None
  /\ browsersLeft = 0
  /\ authCalls = 0
NextTemplate == TemplateEnter \/ ReplaceContext \/ TemplateReturn
SpecTemplate == InitTemplate /\ [][NextTemplate]_vars

(***************************************************************************)
(* util/get-link.js: getLinks                                              *)
(***************************************************************************)
\* Most links a search of getLinks finds.
MaxFound == 2

RECURSIVE ReplaceContexts(_, _, _)
\* contexts.forEach(...) as a whole
ReplaceContexts(result, ctxs, args) ==
  IF ctxs = <<>> THEN result
  ELSE ReplaceContexts(
         ReplaceFirst(result, <<"{">> \o Head(ctxs) \o <<"}">>,
                      ContextValue(args, Head(ctxs))),
         Tail(ctxs), args)
\* generateTemplateString(itemName, albumName, artistName, format): the
\* string returned, or raised
GenerateTemplateString(args) ==
  LET found == Contexts(args.format, 1)
  IN IF \E n \in DOMAIN found : found[n] \notin VALID_CONTEXTS
     THEN [raised |-> TRUE, value |-> <<>>]
     ELSE [raised |-> FALSE,
           value |-> ReplaceContexts(args.format, found, args)]

\* first.replace(/\s+/g, '')
RemoveSpaces(text) == SelectSeq(text, LAMBDA c : c \notin WhiteSpace)
\* first.substring(i, i + 2) for i < first.length - 1
Bigrams(text) == [i \in 1..(Len(text) - 1) |-> <<text[i], text[i + 1]>>]
\* firstBigrams: how often each pair of letters occurs in the first string
BigramCounts(text) ==
  [b \in {Bigrams(text)[i] : i \in DOMAIN Bigrams(text)} |->
     Cardinality({i \in DOMAIN Bigrams(text) : Bigrams(text)[i] = b})]
RECURSIVE IntersectionSize(_, _)
\* the loop over the pairs of the second string: a pair counts when the
\* first string has an occurrence of it left, which it then uses up
IntersectionSize(counts, pairs) ==
  IF pairs = <<>> THEN 0
  ELSE IF Head(pairs) \in DOMAIN counts /\ counts[Head(pairs)] > 0
       THEN 1 + IntersectionSize(
                  [counts EXCEPT ![Head(pairs)] = @ - 1], Tail(pairs))
       ELSE IntersectionSize(counts, Tail(pairs))
\* StringSimilarity.compareTwoStrings(first, second), Dice's coefficient as
\* the fraction num / den: 1 for strings equal without their white space,
\* 0 when one has less than two letters, else twice the common pairs by
\* the number of pairs of both
CompareTwoStrings(a, b) ==
  LET first == RemoveSpaces(a)
      second == RemoveSpaces(b)
  IN IF first = second THEN [num |-> 1, den |-> 1]
     ELSE IF Len(first) < 2 \/ Len(second) < 2 THEN [num |-> 0, den |-> 1]
     ELSE [num |-> 2 * IntersectionSize(BigramCounts(first), Bigrams(second)),
           den |-> Len(first) + Len(second) - 2]

Halo == <<"H", "a", "l", "o">>
GreatestHits ==
  <<"G", "r", "e", "a", "t", "e", "s", "t", Blank, "H", "i", "t", "s">>
GetArgs ==
  [itemName : {<<>>, Halo},
   albumName : {<<>>, Halo, GreatestHits, <<"H", "a", Blank, "l", "o">>,
                <<"H", "a">>, <<"H", "a", "x", "y", "z">>},
   artistName : {<<>>, <<"C">>},
   extraSearch : {<<>>, <<"live">>},
   searchFormat : {<<>>, Placeholder("itemName"), Placeholder("albumName"),
                   Placeholder("itemName") \o Placeholder("foo")}]

\* What findLinks(searchTerms, ..) can return to getLinks: nothing without
\* search terms, else up to MaxFound links of that search.
FoundBy(tier, searchTerms) ==
  IF searchTerms = <<>> THEN {<<>>}
  ELSE {[i \in 1..n |-> <<YoutubeOrigin, tier, i>>] : n \in 0..MaxFound}

\* `${name} - ${itemName}${extraSearchTerm}`
PrefixedSearch(name, args) ==
  name \o <<" - ">> \o args.itemName
    \o (IF args.extraSearch # <<>> THEN <<" ">> \o args.extraSearch ELSE <<>>)

Searched(tier, searchTerms, found) ==
  IF searchTerms = <<>> THEN searches
  ELSE Append(searches,
              [tier |-> tier, searchTerms |-> searchTerms, found |-> found])

\* if (!itemName) return []
GetLinksEnter ==
  /\ lkpc = "enter"
  /\ IF getArgs.itemName = <<>> THEN lkpc' = "returned" ELSE lkpc' = "custom"
  /\ UNCHANGED <<gateVars, listVars, dlVars, runVars, unitVars, tplVars,
                 tagVars, sessVars, authVars, getArgs, links, searches>>

\* A slip: the error of the template leaves getLinks.
CustomSearchFailedRaises == lkpc' = "thrown"
\* catch (error) { logInfo(`Custom search format failed: ...`) }, then
\* if (links.length > 0) with the links still empty
CustomSearchFailed == lkpc' = "album"

\* if (searchFormat) { try { ... } catch { } }  if (links.length > 0) return
CustomTier ==
  /\ lkpc = "custom"
  /\ IF getArgs.searchFormat = <<>>
     THEN UNCHANGED <<links, searches>> /\ lkpc' = "album"
     ELSE LET customSearch ==
                GenerateTemplateString(
                  [itemName |-> getArgs.itemName,
                   albumName |-> getArgs.albumName,
                   artistName |-> getArgs.artistName,
                   format |-> getArgs.searchFormat])
          IN IF customSearch.raised
             THEN UNCHANGED <<links, searches>> /\ CustomSearchFailed
             ELSE \E found \in FoundBy("custom", customSearch.value) :
                    /\ links' = found
                    /\ searches' = Searched("custom", customSearch.value, found)
                    /\ lkpc' = IF Len(found) > 0 THEN "returned" ELSE "album"
  /\ UNCHANGED <<gateVars, listVars, dlVars, runVars, unitVars, tplVars,
                 tagVars, sessVars, authVars, getArgs>>

\* A slip: a similarity of 0.5 still searches.
AlbumSearchInclusive(similarity, albumName) ==
  2 * similarity.num <= similarity.den /\ albumName # <<>>
\* similarity < 0.5 && albumName
AlbumSearch(similarity, albumName) ==
  2 * similarity.num < similarity.den /\ albumName # <<>>

\* if (similarity < 0.5 && albumName) links = await findLinks(...)
AlbumTier ==
  /\ lkpc = "album"
  /\ IF AlbumSearch(CompareTwoStrings(getArgs.itemName, getArgs.albumName),
                    getArgs.albumName)
     THEN \E found \in FoundBy("album",
                               PrefixedSearch(getArgs.albumName, getArgs)) :
            /\ links' = found
            /\ searches' = Searched("album",
                             PrefixedSearch(getArgs.albumName, getArgs), found)
     ELSE UNCHANGED <<links, searches>>
  /\ lkpc' = "artist"
  /\ UNCHANGED <<gateVars, listVars, dlVars, runVars, unitVars, tplVars,
                 tagVars, sessVars, authVars, getArgs>>

ArtistSearchAlways(found, artistName) == artistName # <<>>
\* links.length === 0 && artistName
ArtistSearch(found, artistName) == Len(found) = 0 /\ artistName # <<>>

\* if (links.length === 0 && artistName) links = await findLinks(...)
\* return links
ArtistTier ==
  /\ lkpc = "artist"
  /\ IF ArtistSearch(links, getArgs.artistName)
     THEN \E found \in FoundBy("artist",
                               PrefixedSearch(getArgs.artistName, getArgs)) :
            /\ links' = found
            /\ searches' = Searched("artist",
                             PrefixedSearch(getArgs.artistName, getArgs), found)
     ELSE UNCHANGED <<links, searches>>
  /\ lkpc' = "returned"
  /\ UNCHANGED <<gateVars, listVars, dlVars, runVars, unitVars, tplVars,
                 tagVars, sessVars, authVars, getArgs>>

InitResolve ==
  /\ clock = 0
  /\ nextTokenRefreshTime = Unset
  /\ accessToken = None
  /\ refreshTokenStored = None
  /\ cli = NoCli
  /\ gpc = "idle"
  /\ tries = 1
  /\ lastError = None
  /\ gateResult = None
  /\ invocations = 0
  /\ waits = <<>>
  /\ errs = <<>>
  /\ credLog = <<>>
  /\ credFails = 0
  /\ lpc = "off"
  /\ total = 0
  /\ pageCap = MAX_LIMIT_DEFAULT
  /\ offset = 0
  /\ tracks = <<>>
  /\ fetched = <<>>
  /\ gateCalls = 0
  /\ dpc = "off"
  /\ youtubeLinks = <<"video">>
  /\ attemptCount = 0
  /\ downloadSuccess = FALSE
  /\ complexFilter = NoFilter
  /\ sbAnswer = NotAsked
  /\ outputFile = [state |-> "absent"]
  /\ plans = <<>>
  /\ attempts = <<>>
  /\ dResult = None
  /\ inputs = <<>>
  /\ downloadLyrics = FALSE
  /\ downloadReport = FALSE
  /\ cacheFileIsRelative = TRUE
  /\ rpc = "off"
  /\ inputIdx = 1
  /\ listIdx = 1
  /\ itemIdx = 1
  /\ inputState = <<>>
  /\ flags = <<>>
  /\ ops = <<>>
  /\ ytLinks = <<>>
  /\ listResults = <<>>
  /\ report = <<>>
  /\ dirs = {}
  /\ files = <<>>
  /\ cacheFiles = <<>>
  /\ cacheCalls = <<>>
  /\ sbSegments = <<>>
  /\ fpc = "off"
  /\ findArgs = None
  /\ searchResult = [answer |-> "none"]
  /\ foundLinks = <<>>
  /\ tpc = "off"
  /\ tplArgs = None
  /\ contexts = <<>>
  /\ rendered = <<>>
  /\ tplError = <<>>
  /\ lkpc = "enter"
  /\ getArgs \in GetArgs
  /\ links = <<>>
  /\ searches = <<>>
  /\ mpc = "off"
  /\ tagCalls = 0
  /\ tagArgs = None
  /\ downloadAttempts = 0
  /\ coverFile = "absent"
  /\ artifact = [onDisk |-> TRUE, tagged |-> FALSE, apic |-> None]
  /\ tagLog = <<>>
  /\ listings = 1
  /\ apc = "off"
  /\ server = "closed"
  /\ browser = None
  /\ browsersLeft = 0
  /\ authCalls = 0
NextResolve == GetLinksEnter \/ CustomTier \/ AlbumTier \/ ArtistTier
SpecResolve == InitResolve /\ [][NextResolve]_vars

(***************************************************************************)
(* lib/metadata.js: downloadAndSaveCover, mergeMetadata                    *)
(***************************************************************************)
\* mergeMetadata: const maxAttempts = 2
maxAttempts == 2

\* mergeMetadata(output, songData): output may be empty, songData may be
\* missing, and songData may have no cover_url.
TagArgs ==
  [output : {"", "d1/a.mp3"}, songData : {None, "no cover", "cover"}]

\* How downloadAndSaveCover(uri, filename) can end: the promise resolves with
\* the converted image at filename, or it rejects, with nothing written
\* (the request failed) or with what ffmpeg had written when it failed.
CoverOutcomes == {"saved", "rejected", "rejected, file written"}
CoverAfter(outcome, before) ==
  CASE outcome = "saved" -> "fetched"
    [] outcome = "rejected" -> before
    [] outcome = "rejected, file written" -> "partial"

\* Calls of mergeMetadata for one output path (the item is downloaded again
\* when it was not found in the cache).
MaxTagCalls == 2

\* fs.existsSync(coverFileName)
ExistsSync(file) == file # "absent"

\* if (!output || !songData) return
TagEnter ==
  /\ mpc = "enter"
  /\ IF tagArgs.output = "" \/ tagArgs.songData = None
     THEN mpc' = "returned"
     ELSE IF tagArgs.songData = "cover" THEN mpc' = "fetch"
          ELSE mpc' = "generic"
  /\ UNCHANGED <<gateVars, listVars, dlVars, runVars, unitVars, tplVars,
                 getVars, sessVars, authVars, tagCalls, tagArgs, downloadAttempts, coverFile,
                 artifact, tagLog>>

\* one turn of while (downloadAttempts < maxAttempts) { try { await
\* downloadAndSaveCover(..); break } catch { downloadAttempts++ } }
FetchCover ==
  /\ mpc = "fetch"
  /\ \E outcome \in CoverOutcomes :
       /\ coverFile' = CoverAfter(outcome, coverFile)
       /\ tagLog' = Append(tagLog, IF outcome = "saved" THEN "fetch=saved"
                                   ELSE "fetch=rejected")
       /\ IF outcome = "saved"
          THEN mpc' = "generic" /\ UNCHANGED downloadAttempts
          ELSE /\ downloadAttempts' = downloadAttempts + 1
               /\ mpc' = IF downloadAttempts' < maxAttempts THEN "fetch"
                         ELSE "generic"
  /\ UNCHANGED <<gateVars, listVars, dlVars, runVars, unitVars, tplVars,
                 getVars, sessVars, authVars, tagCalls, tagArgs, artifact>>

\* if (!fs.existsSync(coverFileName)) { try { fs.copyFileSync(GENERIC_IMAGE,
\* coverFileName) } catch { } }
CopyGeneric ==
  /\ mpc = "generic"
  /\ IF ~ExistsSync(coverFile)
     THEN \/ coverFile' = "generic" /\ tagLog' = Append(tagLog, "copy=done")
          \/ UNCHANGED coverFile /\ tagLog' = Append(tagLog, "copy=failed")
     ELSE UNCHANGED <<coverFile, tagLog>>
  /\ mpc' = "update"
  /\ UNCHANGED <<gateVars, listVars, dlVars, runVars, unitVars, tplVars,
                 getVars, sessVars, authVars, tagCalls, tagArgs, downloadAttempts, artifact>>

\* the catch of the try around NodeID3.update
UpdateFailedRaises == mpc' = "thrown"
UpdateFailed == mpc' = "cleanup"

\* APIC: fs.existsSync(coverFileName) ? coverFileName : undefined, and
\* try { NodeID3.update(metadata, output) } catch { }
UpdateTags ==
  /\ mpc = "update"
  /\ \/ /\ artifact' = [artifact EXCEPT !.tagged = TRUE,
                          !.apic = IF ExistsSync(coverFile) THEN coverFile
                                   ELSE None]
        /\ tagLog' = Append(tagLog, "update=done")
        /\ mpc' = "cleanup"
     \/ /\ UNCHANGED artifact
        /\ tagLog' = Append(tagLog, "update=failed")
        /\ UpdateFailed
  /\ UNCHANGED <<gateVars, listVars, dlVars, runVars, unitVars, tplVars,
                 getVars, sessVars, authVars, tagCalls, tagArgs, downloadAttempts, coverFile>>

\* if (fs.existsSync(coverFileName)) { try { fs.unlinkSync(coverFileName) }
\* catch { } }
Cleanup ==
  /\ mpc = "cleanup"
  /\ IF ExistsSync(coverFile)
     THEN \/ coverFile' = "absent" /\ tagLog' = Append(tagLog, "unlink=done")
          \/ UNCHANGED coverFile /\ tagLog' = Append(tagLog, "unlink=failed")
     ELSE UNCHANGED <<coverFile, tagLog>>
  /\ mpc' = "returned"
  /\ UNCHANGED <<gateVars, listVars, dlVars, runVars, unitVars, tplVars,
                 getVars, sessVars, authVars, tagCalls, tagArgs, downloadAttempts, artifact>>

\* mergeMetadata(output, songData) is called again for the same output,
\* which the downloader has written anew
TagAgain ==
  /\ mpc = "returned"
  /\ tagCalls < MaxTagCalls
  /\ tagCalls' = tagCalls + 1
  /\ \E args \in TagArgs : args.output = tagArgs.output /\ tagArgs' = args
  /\ mpc' = "enter"
  /\ downloadAttempts' = 0
  /\ artifact' = [onDisk |-> TRUE, tagged |-> FALSE, apic |-> None]
  /\ tagLog' = <<>>
  /\ UNCHANGED <<gateVars, listVars, dlVars, runVars, unitVars, tplVars,
                 getVars, sessVars, authVars, coverFile>>

InitTag ==
  /\ clock = 0
  /\ nextTokenRefreshTime = Unset
  /\ accessToken = None
  /\ refreshTokenStored = None
  /\ cli = NoCli
  /\ gpc = "idle"
  /\ tries = 1
  /\ lastError = None
  /\ gateResult = None
  /\ invocations = 0
  /\ waits = <<>>
  /\ errs = <<>>
  /\ credLog = <<>>
  /\ credFails = 0
  /\ lpc = "off"
  /\ total = 0
  /\ pageCap = MAX_LIMIT_DEFAULT
  /\ offset = 0
  /\ tracks = <<>>
  /\ fetched = <<>>
  /\ gateCalls = 0
  /\ dpc = "off"
  /\ youtubeLinks = <<"video">>
  /\ attemptCount = 0
  /\ downloadSuccess = FALSE
  /\ complexFilter = NoFilter
  /\ sbAnswer = NotAsked
  /\ outputFile = [state |-> "absent"]
  /\ plans = <<>>
  /\ attempts = <<>>
  /\ dResult = None
  /\ inputs = <<>>
  /\ downloadLyrics = FALSE
  /\ downloadReport = FALSE
  /\ cacheFileIsRelative = TRUE
  /\ rpc = "off"
  /\ inputIdx = 1
  /\ listIdx = 1
  /\ itemIdx = 1
  /\ inputState = <<>>
  /\ flags = <<>>
  /\ ops = <<>>
  /\ ytLinks = <<>>
  /\ listResults = <<>>
  /\ report = <<>>
  /\ dirs = {}
  /\ files = <<>>
  /\ cacheFiles = <<>>
  /\ cacheCalls = <<>>
  /\ sbSegments = <<>>
  /\ fpc = "off"
  /\ findArgs = None
  /\ searchResult = [answer |-> "none"]
  /\ foundLinks = <<>>
  /\ tpc = "off"
  /\ tplArgs = None
  /\ contexts = <<>>
  /\ rendered = <<>>
  /\ tplError = <<>>
  /\ lkpc = "off"
  /\ getArgs = None
  /\ links = <<>>
  /\ searches = <<>>
  /\ mpc = "enter"
  /\ tagCalls = 1
  /\ tagArgs \in TagArgs
  /\ downloadAttempts = 0
  /\ coverFile \in {"absent", "foreign"}
  /\ artifact = [onDisk |-> TRUE, tagged |-> FALSE, apic |-> None]
  /\ tagLog = <<>>
  /\ listings = 1
  /\ apc = "off"
  /\ server = "closed"
  /\ browser = None
  /\ browsersLeft = 0
  /\ authCalls = 0
NextTag ==
  TagEnter \/ FetchCover \/ CopyGeneric \/ UpdateTags \/ Cleanup \/ TagAgain
SpecTag == InitTag /\ [][NextTag]_vars

(***************************************************************************)
(* lib/api.js: requestAuthorizedTokens                                     *)
(***************************************************************************)
\* Calls of requestAuthorizedTokens in one process.
MaxAuthCalls == 2

\* const autoLogin = username.length > 0 && password.length > 0
AutoLogin(c) == c.username # "" /\ c.password # ""

authFrame == <<clock, nextTokenRefreshTime, cli, gpc, tries, lastError,
               gateResult, invocations, waits, errs, credLog, credFails,
               listVars, dlVars, runVars, unitVars, tplVars, getVars,
               tagVars, sessVars>>

\* const server = await app.listen(PORT): with the port still bound by the
\* listener of an earlier call the new listener cannot bind it, and its
\* 'error' event has no handler.
AuthEnter ==
  /\ apc = "enter"
  /\ IF server = "listening"
     THEN apc' = "port in use" /\ UNCHANGED server
     ELSE apc' = "launch" /\ server' = "listening"
  /\ UNCHANGED <<accessToken, refreshTokenStored, browser, browsersLeft,
                 authCalls, authFrame>>

\* if (autoLogin) { browser = await puppeteer.launch(...) } else
\* { open(authURL) }
AuthLaunch ==
  /\ apc = "launch"
  /\ IF AutoLogin(cli)
     THEN \/ browser' = "open" /\ apc' = "consent"
          \/ UNCHANGED browser /\ apc' = "thrown"
     ELSE UNCHANGED browser /\ apc' = "grant"
  /\ UNCHANGED <<accessToken, refreshTokenStored, server, browsersLeft,
                 authCalls, authFrame>>

\* const page = await browser.newPage(); try { await page.goto(authURL) ...
\* } catch (error) { ...; throw new Error('Authentication failed...') }
AuthConsent ==
  /\ apc = "consent"
  /\ \/ apc' = "grant"
     \/ apc' = "thrown"
  /\ UNCHANGED <<accessToken, refreshTokenStored, server, browser,
                 browsersLeft, authCalls, authFrame>>

\* const code = await getCode;
\* setTokens((await spotifyApi.authorizationCodeGrant(code)).body);
\* if (browser) await browser.close();  server.close();
AuthGrant ==
  /\ apc = "grant"
  /\ \/ /\ \E rt \in GrantRefreshTokens("authorize") :
             SetTokens("authorize", rt)
        /\ browser' = IF browser = "open" THEN "closed" ELSE browser
        /\ server' = "closed"
        /\ apc' = "returned"
     \/ /\ apc' = "thrown"
        /\ UNCHANGED <<accessToken, refreshTokenStored, server, browser>>
  /\ UNCHANGED <<browsersLeft, authCalls, authFrame>>

\* checkCredentials calls requestAuthorizedTokens again: after a failure
\* for the next input of the run, after a success when the refresh token
\* was lost.
AuthAgain ==
  /\ apc \in {"returned", "thrown"}
  /\ authCalls < MaxAuthCalls
  /\ authCalls' = authCalls + 1
  /\ apc' = "enter"
  /\ browsersLeft' = browsersLeft + (IF browser = "open" THEN 1 ELSE 0)
  /\ browser' = None
  /\ UNCHANGED <<accessToken, refreshTokenStored, server, authFrame>>

InitAuthorize ==
  /\ clock = 0
  /\ nextTokenRefreshTime = Unset
  /\ accessToken = None
  /\ refreshTokenStored = None
  /\ cli \in {c \in CliInputs : RequiresLogin(c) \/ RequestingLogin(c)}
  /\ gpc = "idle"
  /\ tries = 1
  /\ lastError = None
  /\ gateResult = None
  /\ invocations = 0
  /\ waits = <<>>
  /\ errs = <<>>
  /\ credLog = <<>>
  /\ credFails = 0
  /\ lpc = "off"
  /\ total = 0
  /\ pageCap = MAX_LIMIT_DEFAULT
  /\ offset = 0
  /\ tracks = <<>>
  /\ fetched = <<>>
  /\ gateCalls = 0
  /\ dpc = "off"
  /\ youtubeLinks = <<"video">>
  /\ attemptCount = 0
  /\ downloadSuccess = FALSE
  /\ complexFilter = NoFilter
  /\ sbAnswer = NotAsked
  /\ outputFile = [state |-> "absent"]
  /\ plans = <<>>
  /\ attempts = <<>>
  /\ dResult = None
  /\ inputs = <<>>
  /\ downloadLyrics = FALSE
  /\ downloadReport = FALSE
  /\ cacheFileIsRelative = TRUE
  /\ rpc = "off"
  /\ inputIdx = 1
  /\ listIdx = 1
  /\ itemIdx = 1
  /\ inputState = <<>>
  /\ flags = <<>>
  /\ ops = <<>>
  /\ ytLinks = <<>>
  /\ listResults = <<>>
  /\ report = <<>>
  /\ dirs = {}
  /\ files = <<>>
  /\ cacheFiles = <<>>
  /\ cacheCalls = <<>>
  /\ sbSegments = <<>>
  /\ fpc = "off"
  /\ findArgs = None
  /\ searchResult = [answer |-> "none"]
  /\ foundLinks = <<>>
  /\ tpc = "off"
  /\ tplArgs = None
  /\ contexts = <<>>
  /\ rendered = <<>>
  /\ tplError = <<>>
  /\ lkpc = "off"
  /\ getArgs = None
  /\ links = <<>>
  /\ searches = <<>>
  /\ mpc = "off"
  /\ tagCalls = 0
  /\ tagArgs = None
  /\ downloadAttempts = 0
  /\ coverFile = "absent"
  /\ artifact = [onDisk |-> TRUE, tagged |-> FALSE, apic |-> None]
  /\ tagLog = <<>>
  /\ listings = 1
  /\ apc = "enter"
  /\ server = "closed"
  /\ browser = None
  /\ browsersLeft = 0
  /\ authCalls = 1
NextAuthorize ==
  AuthEnter \/ AuthLaunch \/ AuthConsent \/ AuthGrant \/ AuthAgain
SpecAuthorize == InitAuthorize /\ [][NextAuthorize]_vars

(***************************************************************************)
(* The downloader: order of the candidates, fallback, failures             *)
(***************************************************************************)
Succeeded(a) == a.outcome = "end"

\* C1: the candidates are attempted in list order, each at most once; the
\* first candidate whose transcode ends stops the loop, downloader returns
\* true, no later candidate is planned or attempted, and the file at the
\* output path is the complete one written from that candidate.
C1_OrderedFirstSuccess ==
  /\ Len(plans) <= Len(youtubeLinks)
  /\ \A i \in 1..Len(plans) : plans[i] = i
  /\ Len(attempts) <= Len(plans)
  /\ \A i \in 1..Len(attempts) : attempts[i].link = i
  /\ \A i \in 1..(Len(attempts) - 1) : ~Succeeded(attempts[i])
  /\ (\E i \in 1..Len(attempts) : Succeeded(attempts[i])) =>
       /\ Len(plans) = Len(attempts)
       /\ dpc \in {"loop", "returned"}
       /\ dpc = "returned" => dResult = "true"
       /\ outputFile = [state |-> "complete", from |-> Len(attempts),
                        filter |-> attempts[Len(attempts)].filter]
  /\ dpc = "returned" /\ dResult = "true" =>
       Len(attempts) >= 1 /\ Succeeded(attempts[Len(attempts)])

\* Candidates 1 and 2 fail, 3 succeeds; the second left a partial file
\* behind.
C1_Witness ==
  /\ dpc = "returned"
  /\ dResult = "true"
  /\ Len(attempts) = 3
  /\ ~Succeeded(attempts[1])
  /\ ~Succeeded(attempts[2])
  /\ outputFile.state = "complete"
  /\ outputFile.from = 3

\* C2: for every list of links downloader never throws; it returns false
\* only after every candidate was attempted without success.
C2_NeverRaises ==
  /\ dpc # "thrown"
  /\ dpc = "returned" /\ dResult = "false" =>
       /\ Len(attempts) = Len(youtubeLinks)
       /\ \A i \in 1..Len(attempts) : ~Succeeded(attempts[i])

FailedOutcomes == {"transcodeError", "streamError", "timeout"}

\* C3: a transcoding error, a stream error or the timeout on candidate k
\* only advances the loop to candidate k+1: downloader neither returns nor
\* throws in that step, and while an untried candidate remains its next
\* step is the attempt of that candidate.
C3_FailureAdvances ==
  /\ [][Len(attempts') = Len(attempts) + 1
          /\ attempts'[Len(attempts')].outcome \in FailedOutcomes =>
            /\ attemptCount' = attemptCount + 1
            /\ dpc' = "loop"
            /\ dResult' = dResult
            /\ ~downloadSuccess']_vars
  /\ [][dpc = "loop" /\ ~downloadSuccess /\ attemptCount < Len(youtubeLinks)
          /\ dpc' # dpc =>
            /\ plans' = Append(plans, attemptCount + 1)
            /\ dResult' # "false"]_vars

\* The first candidate timed out and the second one was transcoded.
C3_Witness ==
  /\ Len(attempts) >= 2
  /\ attempts[1].outcome = "timeout"
  /\ attempts[2].link = 2

NoSuppression(answer) == answer.asked /\ (answer.error \/ answer.segments = <<>>)

\* C4: when SponsorBlock answers a candidate with an error or with no
\* segments, sponsorComplexFilter yields null, the candidate is not counted
\* as failed, downloader goes on to transcode that candidate, and the
\* transcode runs without a filter graph.
C4_NoSuppression ==
  /\ [][Len(plans') = Len(plans) + 1 /\ NoSuppression(sbAnswer') =>
          /\ complexFilter' = NoFilter
          /\ dpc' = "download"
          /\ attemptCount' = attemptCount
          /\ attempts' = attempts
          /\ dResult' = dResult]_vars
  /\ [][dpc = "download" /\ NoSuppression(sbAnswer) /\ dpc' # dpc =>
          /\ Len(attempts') = Len(attempts) + 1
          /\ attempts'[Len(attempts')].link = plans[Len(plans)]
          /\ attempts'[Len(attempts')].filter = NoFilter
          /\ Succeeded(attempts'[Len(attempts')]) =>
               outputFile'.filter = NoFilter /\ downloadSuccess']_vars

\* SponsorBlock raised an error for the second candidate, which was then
\* transcoded to the end.
C4_Witness ==
  /\ sbAnswer.asked
  /\ sbAnswer.error
  /\ Len(attempts) = 2
  /\ Succeeded(attempts[2])
  /\ dpc = "returned"
  /\ dResult = "true"

(***************************************************************************)
(* The API gate: retries, exhaustion, credential failures                  *)
(***************************************************************************)
\* C5: a gated call invokes the operation at most 5 times; when the
\* operation fails k times (0 <= k <= 4) and then succeeds, the call returns
\* that value after exactly k+1 invocations and exactly k waits, each of
\* TIMEOUT_RETRY seconds.
C5_RetryThenSuccess ==
  /\ invocations <= 5
  /\ gpc = "returned" =>
       /\ Len(errs) \in 0..4
       /\ invocations = Len(errs) + 1
       /\ waits = [i \in 1..Len(errs) |-> TIMEOUT_RETRY]
       /\ gateResult = [kind |-> "value",
                        page |-> ProviderPage(offset, MAX_LIMIT_DEFAULT)]

\* Four failures, then the fifth attempt succeeds.
C5_Witness ==
  /\ gpc = "returned"
  /\ Len(errs) = 4
  /\ invocations = 5
  /\ Len(waits) = 4

\* C6: when the operation fails on all 5 attempts the call throws the
\* terminal error carrying the 5th error's message and the attempt count 5;
\* it returns no value and makes no 6th attempt.
C6_Exhaustion ==
  /\ [](Len(errs) <= 5)
  /\ [](Len(errs) = 5 =>
          /\ invocations = 5
          /\ gpc \in {"verify", "thrown", "idle"}
          /\ gpc = "thrown" =>
               gateResult = [kind |-> "terminal", attempts |-> 5,
                             message |-> errs[5]])
  /\ [][Len(errs) = 5 /\ gpc = "verify" /\ gpc' # gpc =>
          /\ gpc' = "thrown"
          /\ gateResult' = [kind |-> "terminal", attempts |-> 5,
                            message |-> errs[5]]
          /\ invocations' = invocations]_vars

\* Five failures whose last error differs from the first; the terminal
\* error has been thrown.
C6_Witness ==
  /\ gpc = "thrown"
  /\ Len(errs) = 5
  /\ errs[1] # errs[5]
  /\ gateResult.kind = "terminal"

\* C7: a failure of the credential step ends the call at once with that
\* error: the attempt does not invoke the operation, no second credential
\* strategy is run for it, and the retry loop does not go on.
C7_CredentialFailure ==
  /\ [][credFails' > credFails =>
          /\ gpc' = "thrown"
          /\ gateResult'.kind = "credential"
          /\ gateResult'.strategy = credLog'[Len(credLog')]
          /\ Len(credLog') = Len(credLog) + 1
          /\ invocations' = invocations
          /\ tries' = tries
          /\ waits' = waits]_vars
  /\ [](credFails > 0 => credFails = 1 /\ gpc \in {"thrown", "idle"})
  /\ [][gpc = "thrown" /\ gpc' # gpc => gpc' = "idle" /\ lpc' = "failed"]_vars

\* A refresh that fails at a later attempt of a call, after the operation
\* was invoked and failed.
C7_Witness ==
  /\ gpc = "thrown"
  /\ gateResult.kind = "credential"
  /\ gateResult.strategy = "refresh"
  /\ invocations > 0

(***************************************************************************)
(* Paginated listings                                                      *)
(***************************************************************************)
CeilDiv(a, b) == (a + b - 1) \div b

\* C8: pages are fetched at offsets 0, L, 2L, ..., each by one gated call,
\* their items appended in order; the loop stops exactly when the count is
\* no longer below the reported total. A provider that returns
\* min(L, total - offset) items a page makes it fetch max(1, ceil(total/L))
\* pages and accumulate the items 1..total, each once.
C8_Pagination ==
  /\ \A i \in 1..Len(fetched) : fetched[i] = (i - 1) * MAX_LIMIT_DEFAULT
  /\ offset = Len(fetched) * MAX_LIMIT_DEFAULT
  /\ lpc = "done" => Len(tracks) >= total /\ gateCalls = Len(fetched)
  /\ lpc \in {"fetch", "awaiting", "cut"} /\ fetched # <<>> => Len(tracks) < total
  /\ gateCalls \in {Len(fetched), Len(fetched) + 1}
  /\ pageCap = MAX_LIMIT_DEFAULT =>
       /\ lpc # "cut"
       /\ tracks = [i \in 1..Min(offset, total) |-> i]
       /\ lpc = "done" =>
            /\ Len(fetched) = (IF total = 0 THEN 1
                               ELSE CeilDiv(total, MAX_LIMIT_DEFAULT))
            /\ tracks = [i \in 1..total |-> i]

\* A listing of three pages, the last one short.
C8_Witness ==
  /\ lpc = "done"
  /\ pageCap = MAX_LIMIT_DEFAULT
  /\ Len(fetched) = 3
  /\ Len(tracks) = total
  /\ total % MAX_LIMIT_DEFAULT # 0

(***************************************************************************)
(* The batch orchestrator: cached items and item-fatal conditions          *)
(***************************************************************************)
Last(log) == log[Len(log)]

\* The cursor of the run has moved past item k.
Passed(k) ==
  \/ inputIdx > k[1]
  \/ /\ inputIdx = k[1]
     /\ \/ listIdx > k[2]
        \/ listIdx = k[2] /\ itemIdx > k[3]

\* Item j comes after item k in the lists of the same input.
Later(k, j) ==
  /\ j[1] = k[1]
  /\ \/ j[2] > k[2]
     \/ j[2] = k[2] /\ j[3] > k[3]

\* Every item after k in the lists of its input has been taken up.
LaterItemsProcessed(k) ==
  \A j \in DOMAIN ops : Later(k, j) => ops[j] # <<>>

CacheHit(k) == ops[k] # <<>> /\ ops[k][1] = "findId=true"

\* C9: an item whose id findId reports for its directory gets cached = true
\* and nothing else: the cache check is the only step taken for it (no
\* mkdir, lyrics, getLinks, downloader, mergeMetadata or writeId), failed
\* and lyrics stay unset, the cursor moves to the next item, and once the
\* input is finished every later item of it has been taken up.  No item is
\* marked cached without such a hit.
C9_CacheHitSkips ==
  \A k \in DOMAIN ops :
    /\ CacheHit(k) =>
         /\ flags[k] = [cached |-> "true", failed |-> "unset", lyrics |-> "unset"]
         /\ ops[k] = <<"findId=true">>
         /\ Passed(k)
         /\ (inputIdx > k[1] => LaterItemsProcessed(k))
    /\ flags[k].cached = "true" => CacheHit(k)

\* A finished run in which the first item of a list was found in the cache
\* and the item after it was downloaded.
C9_Witness ==
  /\ rpc = "done"
  /\ \E k \in DOMAIN ops :
       /\ k[3] = 1
       /\ CacheHit(k)
       /\ flags[k].cached = "true"
       /\ files[PathOf(ItemAt(k))] = "complete"
       /\ <<k[1], k[2], 2>> \in DOMAIN ops
       /\ Last(ops[<<k[1], k[2], 2>>]) = "writeId"

ItemFatal == {"mkdir=fail", "getLinks=0", "downloader=false"}

Fatal(k) == ops[k] # <<>> /\ Last(ops[k]) \in ItemFatal

\* The flags an item carries after the steps in log were taken for it.
FlagsOf(log) ==
  [cached |-> IF log # <<>> /\ log[1] = "findId=true" THEN "true" ELSE "unset",
   failed |-> IF log # <<>> /\ Last(log) \in ItemFatal THEN "true"
              ELSE IF log # <<>> /\ Last(log) \in {"writeId", "writeId=fail"}
                   THEN "false" ELSE "unset",
   lyrics |-> IF \E n \in 1..Len(log) : log[n] = "lyrics" THEN "set" ELSE "unset"]

\* C10: when mkdir fails, getLinks returns no link or downloader returns
\* false for an item, that item has failed = true and the cursor has moved
\* on; once its input is finished every later item of the list and of the
\* later lists has been taken up, every later input has been taken up when
\* the run ends, and the flags of every other item are the ones its own
\* steps gave it.
C10_ItemFatalContinues ==
  \A k \in DOMAIN ops :
    Fatal(k) =>
      /\ flags[k].failed = "true"
      /\ flags[k].cached = "unset"
      /\ Passed(k)
      /\ (inputIdx > k[1] => LaterItemsProcessed(k))
      /\ (rpc = "done" => \A n \in (k[1] + 1)..Len(inputs) : inputState[n] # "pending")
      /\ \A j \in DOMAIN flags \ {k} : flags[j] = FlagsOf(ops[j])

\* A finished run in which each of the three conditions occurred, one of
\* them before a later item of the same list and one before a later list,
\* and the later item was downloaded.
C10_Witness ==
  /\ rpc = "done"
  /\ \A f \in ItemFatal :
       \E k \in DOMAIN ops : ops[k] # <<>> /\ Last(ops[k]) = f /\ flags[k].failed = "true"
  /\ \E k \in DOMAIN ops :
       /\ Fatal(k)
       /\ <<k[1], k[2], k[3] + 1>> \in DOMAIN ops
       /\ flags[<<k[1], k[2], k[3] + 1>>].failed = "false"
  /\ \E k \in DOMAIN ops :
       /\ Fatal(k)
       /\ <<k[1], k[2] + 1, 1>> \in DOMAIN ops
       /\ ops[<<k[1], k[2] + 1, 1>>] # <<>>

(***************************************************************************)
(* The cache: writeId followed by findId                                   *)
(***************************************************************************)
\* C13: a writeId(dir, id) that appended its line for a non-empty id,
\* followed by findId(id, dir) that could read the file, makes findId
\* return true; and findId returns false, without raising, when the cache
\* file of dir does not exist or cannot be read.
C13_RecordThenHas ==
  \A n \in 1..Len(cacheCalls) :
    LET call == cacheCalls[n] IN
      /\ ~call.raised
      /\ (call.fn = "findId" /\ call.file \in {"absent", "unreadable"})
           => call.result = "false"
      /\ (/\ n > 1
          /\ call.fn = "findId"
          /\ call.file = "read"
          /\ cacheCalls[n - 1].fn = "writeId"
          /\ cacheCalls[n - 1].file = "appended"
          /\ cacheCalls[n - 1].dir = call.dir
          /\ cacheCalls[n - 1].id = call.id)
         => call.result = "true"

(***************************************************************************)
(* The batch orchestrator: a second run over the same list                 *)
(***************************************************************************)
\* The item was found in the cache or acquired and written to it.
Recorded(k) == ops[k] # <<>> /\ Last(ops[k]) \in {"findId=true", "writeId"}

\* C11: when the first processing of a list left every item of it in the
\* cache, the second processing marks every item cached = true and calls
\* neither getLinks nor downloader.
C11_SecondRunAllCached ==
  (/\ rpc = "done"
   /\ \A n \in 1..Len(inputs) : inputState[n] = "done"
   /\ \A k \in DOMAIN ops : k[1] = 1 => Recorded(k))
  => \A k \in DOMAIN ops :
       k[1] = 2 => flags[k].cached = "true" /\ ops[k] = <<"findId=true">>

(***************************************************************************)
(* The cache and the files on disk                                         *)
(***************************************************************************)
\* C12: in every state of a run, for every directory d and id i, if
\* findId(i, d) is true then the file of item i in d is complete, and an
\* item's id is written only after downloader returned true for it; with a
\* relative and with an absolute cacheFile.
C12_LedgerImpliesArtifact ==
  /\ \A d \in Dirs, i \in ItemIds :
       FindId(i, d) => files[<<d, i>>] = "complete"
  /\ \A k \in DOMAIN ops :
       \A n \in 1..Len(ops[k]) :
         ops[k][n] \in {"writeId", "writeId=fail"} =>
           \E m \in 1..(n - 1) : ops[k][m] = "downloader=true"

(***************************************************************************)
(* The batch orchestrator: a cache write that fails                        *)
(***************************************************************************)
\* Item j was handed to downloader after item k, for the same output path.
AcquiredAgain(k, j) ==
  /\ PathOf(ItemAt(j)) = PathOf(ItemAt(k))
  /\ j[1] > k[1] \/ Later(k, j)
  /\ \E n \in 1..Len(ops[j]) : ops[j][n] = "downloader"

HasURL(k) == ItemAt(k).URL # None

\* C15: for an item that carries a URL, getLinks is never called, and the
\* list handed to downloader is exactly that URL: it is the value of ytLinks
\* from the resolution on, the youtubeLinks of the downloader call, and the
\* only link sponsorComplexFilter and the transcode are run for.
C15_DirectUrlBypassesRanker ==
  \A k \in DOMAIN ops :
    HasURL(k) =>
      /\ \A n \in 1..Len(ops[k]) : ops[k][n] \notin {"getLinks", "getLinks=0"}
      /\ (k = Cur /\ rpc \in {"download", "downloading"})
           => ytLinks = <<ItemAt(k).URL>>
      /\ (k = Cur /\ rpc = "downloading")
           => /\ youtubeLinks = <<ItemAt(k).URL>>
              /\ \A n \in 1..Len(plans) : plans[n] = 1
              /\ \A n \in 1..Len(attempts) : attempts[n].link = 1

\* The downloader has run a successful transcode for the one link of an
\* item that carries its URL.
C15_Witness ==
  /\ rpc = "downloading"
  /\ dpc = "returned"
  /\ dResult = "true"
  /\ HasURL(Cur)
  /\ youtubeLinks = <<"video">>
  /\ Len(attempts) = 1
  /\ ops[Cur] \in {<<"findId=false", "mkdir", "URL", "downloader">>,
                   <<"findId=false", "mkdir", "lyrics", "URL", "downloader">>}

(***************************************************************************)
(* run() and main(): an input that raises                                  *)
(***************************************************************************)
InputFatal == {"unsupported", "apiError"}

Ended == rpc \in {"done", "exit 0", "exit 1"}

\* C16: when processInput raises for an input (a type it does not know, or
\* an API call that gave up), no item of that input is touched, the cursor
\* goes to the next input, and at the end of the run every later input has
\* been taken up and those that were listed have all their items taken up;
\* run() never lets an error through, and the process only stops with exit
\* status 0, however many items are marked failed.
C16_InputErrorContained ==
  /\ \A n \in 1..Len(inputs) :
       inputState[n] \in InputFatal =>
         /\ \A k \in DOMAIN ops : k[1] = n => ops[k] = <<>> /\ flags[k] = NewFlags
         /\ inputIdx > n
         /\ Ended =>
              \A m \in (n + 1)..Len(inputs) :
                /\ inputState[m] # "pending"
                /\ inputState[m] = "done" =>
                     \A k \in DOMAIN ops : k[1] = m => ops[k] # <<>>
  /\ rpc \notin {"raised", "exit 1"}
  /\ ~(ENABLED NextRun) => rpc = "exit 0"

\* The process has exited after a run whose first input raised and whose
\* second input was processed with an item marked failed.
C16_Witness ==
  /\ rpc = "exit 0"
  /\ inputState[1] \in InputFatal
  /\ inputState[2] = "done"
  /\ \E k \in DOMAIN ops : k[1] = 2 /\ flags[k].failed = "true"
  /\ \E k \in DOMAIN ops : k[1] = 2 /\ flags[k].failed = "false"

(***************************************************************************)
(* generateReport                                                          *)
(***************************************************************************)
ItemsOfList(i, l) == {k \in DOMAIN ops : k[1] = i /\ k[2] = l}

\* C17: with downloadReport set, the report is logged at most once and only
\* when the run has ended; at the end, every list of which an item was
\* taken up has an entry in it with the number of its items, the number of
\* those not marked failed, and every item marked failed = true among its
\* failed items.
C17_ReportComplete ==
  /\ Len(report) <= 1
  /\ report # <<>> => Ended /\ downloadReport
  /\ (Ended /\ downloadReport) =>
       \A k \in DOMAIN ops :
         ops[k] # <<>> =>
           /\ report # <<>>
           /\ \E n \in 1..Len(report[1]) :
                LET entry == report[1][n]
                    items == ItemsOfList(k[1], k[2])
                    failedItems == {j \in items : flags[j].failed = "true"}
                IN  /\ entry.list = <<k[1], k[2]>>
                    /\ entry.totalItems = Cardinality(items)
                    /\ entry.successCount = Cardinality(items) - Cardinality(failedItems)
                    /\ entry.failedItems = failedItems

(***************************************************************************)
(* sponsorComplexFilter: the merged segments and the filter graph          *)
(***************************************************************************)
Merged == dpc \in {"graph", "filter returned"}

\* C18: the merged segments are in ascending order of startTime, and each
\* ends strictly before the next one starts, so that segments that touch
\* are made one.
C18_MergedDisjointNotTouching ==
  Merged =>
    \A n \in 1..(Len(sbSegments) - 1) :
      /\ sbSegments[n].startTime <= sbSegments[n + 1].startTime
      /\ sbSegments[n].endTime < sbSegments[n + 1].startTime

\* The seconds of the timeline that the segments cover.
Covered(segs) ==
  UNION {segs[n].startTime..(segs[n].endTime - 1) : n \in 1..Len(segs)}

Inside(x, y) == y.startTime <= x.startTime /\ x.endTime <= y.endTime

\* C19: the merged segments cover exactly what the segments of the provider
\* cover; no segment gives no segment, one segment gives itself, a segment
\* and one that lies inside it (in either order) give the outer one, and
\* (10,20), (15,25), (40,50) in any order give (10,25), (40,50).
C19_MergePreservesUnion ==
  Merged =>
    LET in == sbAnswer.segments IN
      /\ Covered(sbSegments) = Covered(in)
      /\ in = <<>> => sbSegments = <<>>
      /\ Len(in) = 1 => sbSegments = in
      /\ (Len(in) = 2 /\ Inside(in[1], in[2])) => sbSegments = <<in[2]>>
      /\ (Len(in) = 2 /\ Inside(in[2], in[1])) => sbSegments = <<in[1]>>
      /\ {in[n] : n \in 1..Len(in)} = {Seg(10, 20), Seg(15, 25), Seg(40, 50)}
           => sbSegments = <<Seg(10, 25), Seg(40, 50)>>

\* The merge has run on a segment with another inside it before a third.
C19_Witness ==
  /\ Merged
  /\ Len(sbAnswer.segments) = 3
  /\ Inside(sbAnswer.segments[1], sbAnswer.segments[2])
  /\ sbAnswer.segments[1] # sbAnswer.segments[2]
  /\ Len(sbSegments) = 2
  /\ sbSegments[1] = sbAnswer.segments[2]

\* C20: for merged segments s1..sn, n >= 1, the graph has n + 1 atrim
\* operations labelled 0..n in this order: from 0 to s1.startTime, from
\* s_i.endTime to s_(i+1).startTime for each i, and from sn.endTime with no
\* end; up to sn.endTime they keep exactly the seconds no segment covers;
\* the concat takes the n + 1 labels in the same order.  (10,25), (40,50)
\* give (0,10), (25,40), (50, no end).
C20_KeepSegmentsAreComplement ==
  (dpc = "filter returned" /\ sbSegments # <<>>) =>
    LET n == Len(sbSegments)
        trims == complexFilter.trims
    IN  /\ Len(trims) = n + 1
        /\ trims[1].start = 0 /\ trims[1].end = sbSegments[1].startTime
        /\ \A i \in 1..(n - 1) :
             /\ trims[i + 1].start = sbSegments[i].endTime
             /\ trims[i + 1].end = sbSegments[i + 1].startTime
        /\ trims[n + 1].start = sbSegments[n].endTime
        /\ trims[n + 1].end = Open
        /\ \A i \in 1..(n + 1) : trims[i].label = i - 1
        /\ UNION {trims[i].start..(trims[i].end - 1) : i \in 1..n}
             = (0..(sbSegments[n].endTime - 1)) \ Covered(sbSegments)
        /\ complexFilter.concat.n = n + 1
        /\ complexFilter.concat.inputs = [i \in 1..(n + 1) |-> trims[i].label]
        /\ sbSegments = <<Seg(10, 25), Seg(40, 50)>> =>
             [i \in 1..3 |-> <<trims[i].start, trims[i].end>>]
               = <<<<0, 10>>, <<25, 40>>, <<50, Open>>>>

\* The graph was built for two merged segments with a gap between them.
C20_Witness ==
  /\ dpc = "filter returned"
  /\ Len(sbSegments) = 2
  /\ sbSegments[1].startTime > 0
  /\ sbSegments[1].endTime < sbSegments[2].startTime
  /\ Len(complexFilter.trims) = 3

(***************************************************************************)
(* findLinks: the candidates returned                                      *)
(***************************************************************************)
\* The three filters as the claim states them.
PassesFilters(video, type, exclusionFilters) ==
  /\ \A n \in DOMAIN exclusionFilters :
       /\ ~Includes(ToLowerCase(video.title), ToLowerCase(exclusionFilters[n]))
       /\ ~Includes(ToLowerCase(video.description),
                    ToLowerCase(exclusionFilters[n]))
  /\ "seconds" \in DOMAIN video /\ video.seconds > 0
  /\ type \in SongTypes => ~(video.seconds > MAX_MINUTES * 60)

\* C21: findLinks returns at most 10 URLs, in the order of the search
\* result: those of the first (up to 10) videos whose title and description
\* hold no exclusion filter (case ignored), whose duration is present and
\* positive and, for song types only, does not exceed the maximum; with no
\* such video it returns the empty list.
C21_RankFirstPassing ==
  (fpc = "returned" /\ searchResult.answer = "videos") =>
    LET passing ==
          SelectSeq(searchResult.videos,
                    LAMBDA v : PassesFilters(v, findArgs.type,
                                             findArgs.exclusionFilters))
        n == Min(Len(passing), 10)
    IN /\ Len(foundLinks) = n
       /\ \A i \in 1..n : foundLinks[i] = FullUrl(passing[i].url)

(***************************************************************************)
(* generateTemplateString: the rendered string and unknown placeholders    *)
(***************************************************************************)
Words == {"itemName", "albumName", "artistName", "foo"}
\* A placeholder stands at position i of the format
PlaceholderAt(format, i) ==
  /\ i + 2 <= Len(format)
  /\ format[i] = "{" /\ format[i + 1] \in Words /\ format[i + 2] = "}"
UnknownPlaceholders(format) ==
  {format[i + 1] : i \in {j \in DOMAIN format :
                            /\ PlaceholderAt(format, j)
                            /\ <<format[j + 1]>> \notin VALID_CONTEXTS}}
RECURSIVE Substituted(_, _, _)
\* The format from position i on with every placeholder replaced by its
\* value
Substituted(format, args, i) ==
  IF i > Len(format) THEN <<>>
  ELSE IF PlaceholderAt(format, i)
       THEN ContextValue(args, <<format[i + 1]>>)
              \o Substituted(format, args, i + 3)
       ELSE <<format[i]>> \o Substituted(format, args, i + 1)

\* C23: generateTemplateString replaces every occurrence of {itemName},
\* {albumName} and {artistName} in the format by the corresponding value,
\* and when the format holds a placeholder with another name it raises an
\* error that names it and produces no rendered string.
C23_TemplateRendering ==
  tpc \in {"returned", "thrown"} =>
    LET unknown == UnknownPlaceholders(tplArgs.format)
    IN IF unknown = {}
       THEN tpc = "returned" =>
              rendered = Substituted(tplArgs.format, tplArgs, 1)
       ELSE /\ tpc = "thrown"
            /\ rendered = <<>>
            /\ \A w \in unknown :
                 \E n \in DOMAIN tplError : Includes(tplError[n], <<w>>)

(***************************************************************************)
(* getLinks: the order of the tiers and the first success                  *)
(***************************************************************************)
TierRank(tier) == CASE tier = "custom" -> 1 [] tier = "album" -> 2
                    [] tier = "artist" -> 3

\* C22: getLinks searches in the order custom template, album-prefixed,
\* artist-prefixed; once a search has found at least one link no later
\* search is made and getLinks returns exactly that search's links; it
\* returns the links of one search only.
C22_FirstTierWins ==
  /\ \A n \in DOMAIN searches : \A m \in DOMAIN searches :
       n < m => /\ TierRank(searches[n].tier) < TierRank(searches[m].tier)
                /\ searches[n].found = <<>>
  /\ lkpc = "returned" =>
       IF searches = <<>> THEN links = <<>>
       ELSE links = searches[Len(searches)].found

\* The album-prefixed search succeeded after the custom one found nothing,
\* for an item that has an artist.
C22_Witness ==
  /\ lkpc = "returned"
  /\ Len(searches) = 2
  /\ searches[1].tier = "custom" /\ searches[1].found = <<>>
  /\ searches[2].tier = "album" /\ Len(searches[2].found) = 2
  /\ getArgs.artistName # <<>>
  /\ links = searches[2].found

(***************************************************************************)
(* mergeMetadata: the cover that is embedded                               *)
(***************************************************************************)
Count(log, step) == Cardinality({n \in DOMAIN log : log[n] = step})
Logged(step) == \E n \in DOMAIN tagLog : tagLog[n] = step

\* C24: mergeMetadata fetches the cover at most twice; after two failed
\* fetches, or for an item without cover_url, the cover path is filled with
\* a copy of the generic image, which is then the embedded cover, and when
\* that copy fails the tags are written without a cover; a partially
\* fetched image is never embedded.
C24_CoverFallback ==
  /\ Count(tagLog, "fetch=saved") + Count(tagLog, "fetch=rejected") <= 2
  /\ artifact.apic # "partial"
  /\ (/\ artifact.tagged
      /\ \/ tagArgs.songData = "no cover"
         \/ Count(tagLog, "fetch=rejected") = 2) =>
       \/ Logged("copy=done") /\ artifact.apic = "generic"
       \/ Logged("copy=failed") /\ artifact.apic = None

TagSkipped == tagArgs.output = "" \/ tagArgs.songData = None

C26_NoCallWithoutFreshToken ==
  /\ [][gpc' = "call" /\ gpc # "call" => gpc = "verify"]_vars
  /\ [][invocations' > invocations => gpc = "call"]_vars
  /\ [][gpc = "verify" /\ gpc' = "call" =>
          /\ accessToken' # None
          /\ ~Stale(nextTokenRefreshTime', clock)]_vars

\* C27: an attempt made at an instant at or past nextTokenRefreshTime (or
\* before any was set) runs the credential step before the operation, and
\* an attempt made before that instant runs none.
C27_RefreshAtOrPastExpiry ==
  [][(gpc = "verify" /\ tries <= maxRetries /\ gpc' # "verify") =>
       (Len(credLog') = Len(credLog) + 1
          <=> (nextTokenRefreshTime = Unset \/ clock >= nextTokenRefreshTime))
    ]_vars

\* C28: when the credential step runs, it refreshes exactly when a refresh
\* token is stored; without one it runs the authorization flow exactly when
\* an input is a saved collection, the login option is set or username and
\* password are both given, and the client-credentials grant otherwise.
C28_StrategyChoice ==
  [][Len(credLog') > Len(credLog) =>
       LET chosen == credLog'[Len(credLog')]
           personal ==
             \/ \E n \in DOMAIN cli.inputs :
                  cli.inputs[n] \in {"savedAlbums", "savedPlaylists",
                                     "savedTracks", "savedShows"}
             \/ cli.login
             \/ cli.username # "" /\ cli.password # ""
       IN /\ chosen = "refresh" <=> refreshTokenStored # None
          /\ refreshTokenStored = None =>
               /\ chosen = "authorize" <=> personal
               /\ chosen = "anonymous" <=> ~personal]_vars

\* The authorization flow was run because of a saved collection alone, and
\* in a later call the token it stored was refreshed.
C28_Witness ==
  /\ credLog = <<"refresh">>
  /\ accessToken = "refresh"
  /\ \E n \in DOMAIN cli.inputs : cli.inputs[n] = "savedTracks"
  /\ ~cli.login /\ cli.username = "" /\ cli.password = "p"

(***************************************************************************)
(* downloadList: the order of the items and of the steps of an item        *)
(***************************************************************************)
StepRank(step) ==
  CASE step \in {"findId=true", "findId=false"} -> 1
    [] step \in {"mkdir", "mkdir=fail"} -> 2
    [] step = "lyrics" -> 3
    [] step \in {"URL", "getLinks", "getLinks=0"} -> 4
    [] step = "downloader" -> 5
    [] step \in {"downloader=true", "downloader=false", "downloader=threw"} -> 6
    [] step = "mergeMetadata" -> 7
    [] step \in {"writeId", "writeId=fail"} -> 8
\* The steps after which nothing more is done for the item
LastSteps ==
  {"findId=true", "mkdir=fail", "getLinks=0", "downloader=false",
   "downloader=threw", "writeId", "writeId=fail"}
\* The log is a beginning of: cache check, mkdir, lyrics if asked for,
\* links, downloader and its result, mergeMetadata, writeId.
InStepOrder(log) ==
  /\ log # <<>> => StepRank(log[1]) = 1
  /\ \A n \in 1..(Len(log) - 1) :
       /\ log[n] \notin LastSteps
       /\ StepRank(log[n + 1]) =
            IF StepRank(log[n]) = 2 /\ ~downloadLyrics THEN 4
            ELSE StepRank(log[n]) + 1
HasOutcome(k) ==
  /\ ops[k] # <<>>
  /\ Last(ops[k]) \in LastSteps \ {"downloader=threw"}
  /\ flags[k].cached = "true" \/ flags[k].failed \in {"true", "false"}

\* C29: the items of a list are taken one at a time in list order, no step
\* of an item being made before the item before it has its outcome; the
\* steps of an item that is not cached are made in the order cache check,
\* mkdir, lyrics when asked for, links, downloader, and after a successful
\* download mergeMetadata, writeId and failed = false; mergeMetadata and
\* writeId are never made after a failed download.
C29_StepsInOrder ==
  \A k \in DOMAIN ops :
    /\ InStepOrder(ops[k])
    /\ \A n \in DOMAIN ops[k] :
         ops[k][n] \in {"mergeMetadata", "writeId", "writeId=fail"} =>
           \E m \in 1..(n - 1) : ops[k][m] = "downloader=true"
    /\ flags[k].failed = "false" <=>
         (ops[k] # <<>> /\ Last(ops[k]) \in {"writeId", "writeId=fail"})
    /\ \A j \in DOMAIN ops :
         (j[1] = k[1] /\ j[2] = k[2] /\ j[3] > k[3] /\ ops[j] # <<>>) =>
           HasOutcome(k)

\* An item went through every step, lyrics included, and the item after it
\* in the list was taken up and its download failed.
C29_Witness ==
  \E k \in DOMAIN ops : \E j \in DOMAIN ops :
    /\ j[1] = k[1] /\ j[2] = k[2] /\ j[3] = k[3] + 1
    /\ ops[k] = <<"findId=false", "mkdir", "lyrics", "getLinks", "downloader",
                  "downloader=true", "mergeMetadata", "writeId">>
    /\ ops[j] # <<>> /\ Last(ops[j]) = "downloader=false"
    /\ flags[j].failed = "true"

(***************************************************************************)
(* The cache file under sequences of writeId and findId                    *)
(***************************************************************************)
LineFeeds(text) == Cardinality({n \in DOMAIN text : text[n] = LineFeed})

\* C30 as stated: findId never changes a cache file, and every writeId
\* leaves the earlier content of its file as a prefix and adds exactly one
\* line "spotify <id>" after it.
C30_EveryRecordAddsOneLine ==
  [][Len(cacheCalls') > Len(cacheCalls) =>
       LET call == cacheCalls'[Len(cacheCalls')]
           file == GetCacheFile(call.dir)
       IN /\ call.fn = "findId" => cacheFiles' = cacheFiles
          /\ call.fn = "writeId" =>
               /\ cacheFiles'[file] =
                    cacheFiles[file] \o <<SchemePrefix>> \o call.id
                      \o <<LineFeed>>
               /\ LineFeeds(cacheFiles'[file]) = LineFeeds(cacheFiles[file]) + 1
    ]_vars

\* C30, amended: findId never changes a cache file; a writeId leaves every
\* file as it is or, when it appends, puts "spotify <id>" and a line feed
\* after the unchanged earlier content of its file (one line when the id
\* holds no line feed) and leaves the other files alone; an id that findId
\* reports for a directory is reported for it ever after.
C30_AppendOnly ==
  /\ [][Len(cacheCalls') > Len(cacheCalls) =>
          LET call == cacheCalls'[Len(cacheCalls')]
          IN /\ call.fn = "findId" => cacheFiles' = cacheFiles
             /\ call.fn = "writeId" =>
                  \A f \in CachePaths :
                    IF call.file = "appended" /\ f = GetCacheFile(call.dir)
                    THEN /\ cacheFiles'[f] =
                              cacheFiles[f] \o <<SchemePrefix>> \o call.id
                                \o <<LineFeed>>
                         /\ LineFeeds(call.id) = 0 =>
                              LineFeeds(cacheFiles'[f]) =
                                LineFeeds(cacheFiles[f]) + 1
                    ELSE cacheFiles'[f] = cacheFiles[f]
    ]_vars
  /\ [](\A n \in DOMAIN cacheCalls :
          cacheCalls[n].fn = "findId" /\ cacheCalls[n].result = "true" =>
            FindId(cacheCalls[n].id, cacheCalls[n].dir))

\* Two lines were appended to one file, with a findId between them that
\* found the first id.
C30_Witness ==
  /\ Len(cacheCalls) = 3
  /\ cacheCalls[1].fn = "writeId" /\ cacheCalls[1].file = "appended"
  /\ cacheCalls[2].fn = "findId" /\ cacheCalls[2].result = "true"
  /\ cacheCalls[3].fn = "writeId" /\ cacheCalls[3].file = "appended"
  /\ cacheCalls[1].dir = "d1" /\ cacheCalls[3].dir = "d1"
  /\ cacheCalls[1].id = <<"a">> /\ cacheCalls[3].id = <<SchemePrefix, "a">>
  /\ cacheFiles[GetCacheFile("d1")] =
       <<SchemePrefix, "a", LineFeed, SchemePrefix, SchemePrefix, "a",
         LineFeed>>

(***************************************************************************)
(* getLinks with a search format that cannot be rendered                   *)
(***************************************************************************)
TemplateFails(args) ==
  /\ args.searchFormat # <<>>
  /\ GenerateTemplateString([itemName |-> args.itemName,
                             albumName |-> args.albumName,
                             artistName |-> args.artistName,
                             format |-> args.searchFormat]).raised

SearchOf(tier, searchTerms) ==
  {<<[tier |-> tier, searchTerms |-> searchTerms, found |-> found]>> :
     found \in FoundBy(tier, searchTerms)}

\* The searches a call without search format can have made when it returns.
SearchesWithoutFormat(args) ==
  LET albumPart ==
        IF AlbumSearch(CompareTwoStrings(args.itemName, args.albumName),
                       args.albumName)
        THEN SearchOf("album", PrefixedSearch(args.albumName, args))
        ELSE {<<>>}
      artistPart(a) ==
        IF (a = <<>> \/ a[1].found = <<>>) /\ args.artistName # <<>>
        THEN SearchOf("artist", PrefixedSearch(args.artistName, args))
        ELSE {<<>>}
  IN UNION {{a \o b : b \in artistPart(a)} : a \in albumPart}

\* C31: when the search format names an unknown placeholder, getLinks never
\* raises and makes no custom search; it goes on to the album-prefixed and
\* artist-prefixed searches and returns what a call without search format
\* returns: the searches made are those of such a call, and the links are
\* those of the last search, or none.
C31_TemplateFailureFallsThrough ==
  (lkpc # "off" /\ getArgs.itemName # <<>> /\ TemplateFails(getArgs)) =>
     /\ lkpc # "thrown"
     /\ \A n \in DOMAIN searches : searches[n].tier # "custom"
     /\ lkpc = "album" => links = <<>> /\ searches = <<>>
     /\ lkpc = "returned" =>
          /\ searches \in SearchesWithoutFormat(getArgs)
          /\ links = IF searches = <<>> THEN <<>>
                     ELSE searches[Len(searches)].found

\* A call whose search format could not be rendered has returned the links
\* of the artist-prefixed search, made after an empty album-prefixed one.
C31_Witness ==
  /\ lkpc = "returned"
  /\ TemplateFails(getArgs)
  /\ Len(searches) = 2
  /\ searches[1].tier = "album" /\ searches[1].found = <<>>
  /\ searches[2].tier = "artist" /\ Len(searches[2].found) = 1
  /\ links = searches[2].found

(***************************************************************************)
(* getLinks: when the album-prefixed and artist-prefixed searches are made *)
(***************************************************************************)
SearchesOf(tier) == {n \in DOMAIN searches : searches[n].tier = tier}
\* "{name} - {item} {extra}", the extra part only when there is one
PrefixedText(name, item, extra) ==
  name \o <<" - ">> \o item \o (IF extra = <<>> THEN <<>> ELSE <<" ">> \o extra)
BelowHalf(similarity) == 2 * similarity.num < similarity.den
CustomYieldedNothing ==
  \A n \in SearchesOf("custom") : searches[n].found = <<>>

\* C32: once the custom search is over without links, getLinks makes the
\* album-prefixed search exactly when there is an album name whose
\* similarity with the item name is below 0.5 (not for item Halo with album
\* Halo, but for album Greatest Hits), and it makes the artist-prefixed
\* search exactly when the links are still empty and there is an artist
\* name; the searches are for "{album} - {item} {extra}" and
\* "{artist} - {item} {extra}".
C32_AlbumAndArtistSearch ==
  LET sim == CompareTwoStrings(getArgs.itemName, getArgs.albumName)
      albumDue == getArgs.albumName # <<>> /\ BelowHalf(sim)
      albumEmpty == \A n \in SearchesOf("album") : searches[n].found = <<>>
  IN (lkpc \in {"artist", "returned"} /\ getArgs.itemName # <<>>
        /\ CustomYieldedNothing) =>
       /\ (SearchesOf("album") # {}) <=> albumDue
       /\ getArgs.albumName = Halo => SearchesOf("album") = {}
       /\ getArgs.albumName = GreatestHits => SearchesOf("album") # {}
       /\ \A n \in SearchesOf("album") :
            searches[n].searchTerms =
              PrefixedText(getArgs.albumName, getArgs.itemName,
                           getArgs.extraSearch)
       /\ lkpc = "returned" =>
            /\ (SearchesOf("artist") # {}) <=>
                 (albumEmpty /\ getArgs.artistName # <<>>)
            /\ \A n \in SearchesOf("artist") :
                 searches[n].searchTerms =
                   PrefixedText(getArgs.artistName, getArgs.itemName,
                                getArgs.extraSearch)

\* For item Halo of album Greatest Hits the album-prefixed search was made
\* and found nothing, and the artist-prefixed search followed.
C32_Witness ==
  /\ lkpc = "returned"
  /\ getArgs.itemName = Halo /\ getArgs.albumName = GreatestHits
  /\ getArgs.extraSearch # <<>>
  /\ Len(searches) = 2
  /\ searches[1].tier = "album" /\ searches[1].found = <<>>
  /\ searches[2].tier = "artist"

(***************************************************************************)
(* nextTokenRefreshTime after a credential step that failed                *)
(***************************************************************************)
\* C33: nextTokenRefreshTime lies in the future only when the latest
\* credential step succeeded: when a call has ended with the error of its
\* credential step, nextTokenRefreshTime is unset or not after the present
\* instant, so that the next call runs the credential step again.
C33_ExpiryInFutureOnlyAfterSuccess ==
  (gpc = "thrown" /\ gateResult.kind = "credential") =>
     (nextTokenRefreshTime = Unset \/ nextTokenRefreshTime <= clock)

(***************************************************************************)
(* The refresh token over the credential steps of a process                *)
(***************************************************************************)
\* C34: a successful refresh made while a refresh token is stored leaves a
\* refresh token stored, whether or not the response carries one; so once
\* the authorization flow has stored its tokens every later credential step
\* is a refresh and the authorization flow is not run again.
C34_RefreshTokenKept ==
  /\ [][(/\ Len(credLog') > Len(credLog)
          /\ credLog'[Len(credLog')] = "refresh"
          /\ gpc' = "call") => refreshTokenStored' # None]_vars
  /\ [][(/\ Len(credLog') > Len(credLog)
          /\ accessToken \in {"authorize", "refresh"}) =>
            credLog'[Len(credLog')] = "refresh"]_vars

(***************************************************************************)
(* The end of the page loop                                                *)
(***************************************************************************)
\* C35: the page loop ends after finitely many fetches for every finite
\* total, also when pages come short or empty: past its first page it never
\* asks for a page at an offset at or beyond the reported total, where the
\* provider has no items left to bring the count up to the total, and it
\* is never still running after MaxPages pages.
C35_PageLoopEnds ==
  /\ \A n \in DOMAIN fetched : n > 1 => fetched[n] < total
  /\ lpc # "cut"

(***************************************************************************)
(* mergeMetadata and a file that was at the cover path before the call     *)
(***************************************************************************)
\* C36: mergeMetadata removes only a cover file it made itself: a file that
\* was at the cover path before the call is neither changed nor removed by
\* any step of it, and is never the image put into the APIC frame.
C36_ForeignCoverUntouched ==
  /\ [][coverFile = "foreign" => coverFile' = "foreign"]_vars
  /\ [](artifact.apic # "foreign")

(***************************************************************************)
(* requestAuthorizedTokens: the listener and the browser on every exit     *)
(***************************************************************************)
\* C37: whenever requestAuthorizedTokens has ended, by returning or by an
\* error, its listener on PORT is closed and the browser it launched is
\* closed, so no browser of an earlier call is left open and a later call
\* never finds the port still bound.
C37_AuthorizationReleasesAll ==
  /\ apc \in {"returned", "thrown"} =>
       server = "closed" /\ browser # "open"
  /\ browsersLeft = 0
  /\ apc # "port in use"

====
